---- MODULE Spec2Model ----
(***************************************************************************)
(* RepackKing: the REST API of the game catalog (games, genres,            *)
(* screenshots, ratings, analytics), the moderation service (game reports  *)
(* and DMCA notices with public tracking ids) and the authentication gate, *)
(* modelled as a state machine over the SQLite tables and the uploads      *)
(* directory.  One action per route handler; a handler runs to completion  *)
(* (better-sqlite3 is synchronous), so an action is one request.           *)
(*                                                                         *)
(* Strings are sequences of symbols: a symbol is one character ("A", "@",  *)
(* " ") or an opaque chunk of text that no parser of the program looks     *)
(* into ("pending", "/uploads/").  JavaScript and SQLite values are        *)
(* records [tag, s, n]: tag is "undefined", "null", "str" or "num", s the  *)
(* string of a "str", n the number of a "num" in tenths (59 is 5.9).       *)
(***************************************************************************)
EXTENDS Integers, Sequences, FiniteSets, TLC

\* ------------------------------------------------------------------ bounds
\* AUTOINCREMENT counters are capped: at most this many rows are ever
\* inserted into the table in one behaviour.
MaxGames == 2
MaxGenres == 2
MaxShots == 3
MaxRatings == 2
MaxEvents == 2
MaxReports == 2
MaxNotices == 2
\* The clock advances TickHours at a time, at most MaxTicks times.
MaxTicks == 3
TickHours == 12

\* ------------------------------------------------------- program constants
\* generateToken: expiresIn '24h'
ExpiresInHours == 24
\* downloadScreenshots: maxCount = 5
MaxCount == 5

\* ----------------------------------------------------------------- values
Undefined == [tag |-> "undefined", s |-> <<>>, n |-> 0]
Null == [tag |-> "null", s |-> <<>>, n |-> 0]
Str(s) == [tag |-> "str", s |-> s, n |-> 0]
\* a number given in tenths
Dec(t) == [tag |-> "num", s |-> <<>>, n |-> t]
Num(i) == Dec(10 * i)
EmptyStr == Str(<<>>)

\* JavaScript truthiness of the values modelled: undefined, null, "" and 0
\* are falsy.
Truthy(v) ==
  \/ v.tag = "str" /\ v.s # <<>>
  \/ v.tag = "num" /\ v.n # 0

\* a || b
Or(a, b) == IF Truthy(a) THEN a ELSE b

\* body.field of a parsed JSON body: a key that is absent reads as undefined.
Field(body, f) == IF f \in DOMAIN body THEN body[f] ELSE Undefined

IsInteger(v) == v.tag = "num" /\ v.n % 10 = 0

\* ---------------------------------------------------------------- strings
UpperChars == <<"A", "B", "C", "D", "E", "F", "G", "H", "I", "J", "K", "L", "M",
                "N", "O", "P", "Q", "R", "S", "T", "U", "V", "W", "X", "Y", "Z">>
LowerChars == <<"a", "b", "c", "d", "e", "f", "g", "h", "i", "j", "k", "l", "m",
                "n", "o", "p", "q", "r", "s", "t", "u", "v", "w", "x", "y", "z">>
DigitChars == {"0", "1", "2", "3", "4", "5", "6", "7", "8", "9"}

ToLowerChar(c) ==
  IF \E i \in 1..Len(UpperChars) : UpperChars[i] = c
  THEN LowerChars[CHOOSE i \in 1..Len(UpperChars) : UpperChars[i] = c]
  ELSE c

\* String.prototype.toLowerCase
toLowerCase(s) == [i \in 1..Len(s) |-> ToLowerChar(s[i])]

\* the character class [a-z0-9]
IsLowerAlnum(c) == (\E i \in 1..Len(LowerChars) : LowerChars[i] = c) \/ c \in DigitChars

\* .replace(/[^a-z0-9]+/g, '-'): every maximal run of other characters
\* becomes one hyphen.
RECURSIVE ReplaceRuns(_, _)
ReplaceRuns(s, inRun) ==
  IF s = <<>> THEN <<>>
  ELSE IF IsLowerAlnum(Head(s)) THEN <<Head(s)>> \o ReplaceRuns(Tail(s), FALSE)
  ELSE IF inRun THEN ReplaceRuns(Tail(s), TRUE)
  ELSE <<"-">> \o ReplaceRuns(Tail(s), TRUE)

\* .replace(/^-|-$/g, ''): one hyphen at the start and one at the end go.
StripEdgeHyphens(s) ==
  LET a == IF Len(s) > 0 /\ Head(s) = "-" THEN Tail(s) ELSE s
  IN IF Len(a) > 0 /\ a[Len(a)] = "-" THEN SubSeq(a, 1, Len(a) - 1) ELSE a

createSlug(name) == StripEdgeHyphens(ReplaceRuns(toLowerCase(name), FALSE))

\* ------------------------------------------------------------------ state
VARIABLES
  games,             \* table games: id -> row
  gameSeq,           \* sqlite_sequence of games (AUTOINCREMENT never reuses an id)
  genres,            \* table genres: id -> [name, slug, created_at]
  genreSeq,
  game_genres,       \* table game_genres: set of <<game_id, genre_id>>
  game_screenshots,  \* table game_screenshots: id -> [game_id, image_path, sort_order]
  shotSeq,
  game_ratings,      \* table game_ratings: id -> [game_id, rating, created_at]
  ratingSeq,
  analytics,         \* table analytics: id -> [game_id, event_type, created_at]
  eventSeq,
  game_reports,      \* table game_reports: id -> row
  reportSeq,
  dmca_notices,      \* table dmca_notices: id -> row
  noticeSeq,
  admin_users,       \* table admin_users: id -> [username, password_hash]
  migrationFiles,    \* the files of the migrations directory
  schema,            \* the schema objects of the database
  migrations,        \* table migrations (the ledger): rows [name] in id order
  inflight,          \* genre requests between their statements: caller -> [op, name, pc]
  files,             \* file names present in the uploads directory
  now,               \* the clock, in hours
  res                \* the last request and the response sent for it

catalogVars == <<games, gameSeq, genres, genreSeq, game_genres, game_screenshots, shotSeq>>
feedbackVars == <<game_ratings, ratingSeq, analytics, eventSeq>>
moderationVars == <<game_reports, reportSeq, dmca_notices, noticeSeq>>
setupVars == <<admin_users, migrationFiles, schema, migrations, inflight>>
dbVars == <<catalogVars, feedbackVars, moderationVars, setupVars>>
vars == <<dbVars, files, now, res>>

\* Two callers, none between two statements of a request.
Callers == {"c1", "c2"}
IdleCaller == [op |-> "none", name |-> <<>>, pc |-> "idle"]
NoneInFlight == [c \in Callers |-> IdleCaller]

\* The empty table.
NoRows == [id \in {} |-> Null]

\* bcrypt.hashSync / bcrypt.compareSync: a hash matches the password it was
\* made from and no other.
hashSync(password) == <<"bcrypt">> \o password
compareSync(password, hash) == hash = hashSync(password)

AdminName == <<"Admin">>

\* ------------------------------------------------------------- migrations
\* File names are sequences of symbols: three digits, a stem, an extension.
SqlExt == ".sql"
File001 == <<"0", "0", "1", "_initial", SqlExt>>
File002 == <<"0", "0", "2", "_genres_version_reports", SqlExt>>
File003 == <<"0", "0", "3", "_game_screenshots", SqlExt>>
File004 == <<"0", "0", "4", "_game_ratings", SqlExt>>
File005 == <<"0", "0", "5", "_dmca_notices", SqlExt>>
File006 == <<"0", "0", "6", "_reports_admin_notes", SqlExt>>
File007 == <<"0", "0", "7", "_tracking_ids", SqlExt>>
File008 == <<"0", "0", "8", "_public_notes", SqlExt>>
AllMigrationFiles == {File001, File002, File003, File004, File005, File006, File007, File008}

\* The statements of a migration that create or need a schema object (the
\* CREATE INDEX IF NOT EXISTS statements index tables of their own file).
CreateTable(t) == [op |-> "createTable", table |-> t, name |-> t]
AddColumn(t, c) == [op |-> "addColumn", table |-> t, name |-> c]
UpdateRows(t, c) == [op |-> "update", table |-> t, name |-> c]
CreateTrigger(n, t) == [op |-> "createTrigger", table |-> t, name |-> n]
CreateUniqueIndex(n, t, c) == [op |-> "createUniqueIndex", table |-> t, name |-> n, column |-> c]

Sql001 == <<CreateTable("games"), CreateTable("analytics"), CreateTable("migrations"),
            CreateTable("admin_users")>>
Sql002 == <<AddColumn("games", "version"), AddColumn("games", "rec_cpu"), AddColumn("games", "rec_gpu"),
            AddColumn("games", "rec_ram"), AddColumn("games", "rec_storage"), AddColumn("games", "rec_os"),
            CreateTable("genres"), CreateTable("game_genres"), CreateTable("game_reports")>>
Sql003 == <<CreateTable("game_screenshots")>>
Sql004 == <<CreateTable("game_ratings")>>
Sql005 == <<CreateTable("dmca_notices")>>
Sql006 == <<AddColumn("game_reports", "admin_notes"), AddColumn("game_reports", "updated_at"),
            UpdateRows("game_reports", "updated_at"),
            CreateTrigger("update_game_reports_updated_at", "game_reports")>>
Sql007 == <<AddColumn("dmca_notices", "tracking_id"), AddColumn("game_reports", "tracking_id"),
            CreateUniqueIndex("idx_dmca_notices_tracking_id", "dmca_notices", "tracking_id"),
            CreateUniqueIndex("idx_game_reports_tracking_id", "game_reports", "tracking_id")>>
Sql008 == <<AddColumn("dmca_notices", "public_note"), AddColumn("game_reports", "public_note")>>

\* fs.readFileSync(path.join(MIGRATIONS_DIR, file))
readFileSync(file) ==
  CASE file = File001 -> Sql001 [] file = File002 -> Sql002 [] file = File003 -> Sql003
    [] file = File004 -> Sql004 [] file = File005 -> Sql005 [] file = File006 -> Sql006
    [] file = File007 -> Sql007 [] file = File008 -> Sql008

\* Schema objects: tables, the columns added to them, triggers and indexes.
Table(t) == [kind |-> "table", on |-> t, name |-> t]
Column(t, c) == [kind |-> "column", on |-> t, name |-> c]
Trigger(n, t) == [kind |-> "trigger", on |-> t, name |-> n]
Index(n, t) == [kind |-> "index", on |-> t, name |-> n]

\* What a statement leaves in the schema when it succeeds.
ObjectsOf(st) ==
  CASE st.op = "createTable" -> {Table(st.table)}
    [] st.op = "addColumn" -> {Column(st.table, st.name)}
    [] st.op = "update" -> {}
    [] st.op = "createTrigger" -> {Trigger(st.name, st.table)}
    [] st.op = "createUniqueIndex" -> {Index(st.name, st.table)}

\* SQLite's errors: no such table, duplicate column name, no such column,
\* index already exists.  CREATE ... IF NOT EXISTS of a table or trigger
\* that exists does nothing.
StatementFails(st, sch) ==
  CASE st.op = "createTable" -> FALSE
    [] st.op = "addColumn" -> Table(st.table) \notin sch \/ Column(st.table, st.name) \in sch
    [] st.op = "update" -> Table(st.table) \notin sch \/ Column(st.table, st.name) \notin sch
    [] st.op = "createTrigger" -> Table(st.table) \notin sch
    [] st.op = "createUniqueIndex" ->
         \/ Table(st.table) \notin sch
         \/ Column(st.table, st.column) \notin sch
         \/ Index(st.name, st.table) \in sch

\* db.exec(sql): the statements in order, stopping at the first that fails.
RECURSIVE exec(_, _)
exec(sql, sch) ==
  IF sql = <<>> THEN [ok |-> TRUE, schema |-> sch]
  ELSE IF StatementFails(Head(sql), sch) THEN [ok |-> FALSE, schema |-> sch]
  ELSE exec(Tail(sql), sch \cup ObjectsOf(Head(sql)))

\* The order of Array.prototype.sort() on strings: by code unit, a proper
\* prefix first.
CodeUnit(c) ==
  CASE c = "0" -> 48 [] c = "1" -> 49 [] c = "2" -> 50 [] c = "3" -> 51 [] c = "4" -> 52
    [] c = "5" -> 53 [] c = "6" -> 54 [] c = "7" -> 55 [] c = "8" -> 56 [] c = "9" -> 57
    [] c = SqlExt -> 46
    [] OTHER -> 95

RECURSIVE SortsBefore(_, _)
SortsBefore(a, b) ==
  IF a = <<>> THEN b # <<>>
  ELSE IF b = <<>> THEN FALSE
  ELSE IF Head(a) = Head(b) THEN SortsBefore(Tail(a), Tail(b))
  ELSE CodeUnit(Head(a)) < CodeUnit(Head(b))

RECURSIVE sort(_)
sort(S) ==
  IF S = {} THEN <<>>
  ELSE LET first == CHOOSE a \in S : \A b \in S \ {a} : SortsBefore(a, b)
       IN <<first>> \o sort(S \ {first})

\* file.replace('.sql', ''): the first occurrence dropped.
RECURSIVE migrationName(_)
migrationName(file) ==
  IF file = <<>> THEN <<>>
  ELSE IF Head(file) = SqlExt THEN Tail(file)
  ELSE <<Head(file)>> \o migrationName(Tail(file))

endsWithSql(f) == f # <<>> /\ f[Len(f)] = SqlExt

\* getAppliedMigrations: the names of the ledger, none when the table
\* migrations does not exist.
getAppliedMigrationsNone(sch, ledger) == {}
getAppliedMigrations(sch, ledger) ==
  IF Table("migrations") \in sch THEN {ledger[i].name : i \in DOMAIN ledger} ELSE {}

applyFileNoRollback(file, applied, db) ==
  LET name == migrationName(file)
      ran == exec(readFileSync(file), db.schema)
  IN IF name \in applied THEN db
     ELSE IF ~ran.ok \/ name \in {db.ledger[i].name : i \in DOMAIN db.ledger}
     THEN [db EXCEPT !.failed = TRUE, !.schema = ran.schema]
     ELSE [db EXCEPT !.schema = ran.schema \cup {Table("migrations")},
                     !.ledger = Append(db.ledger, [name |-> name]),
                     !.log = Append(db.log, name)]

\* One file of the loop of runMigrations: skipped when its name is applied;
\* otherwise its statements, CREATE TABLE IF NOT EXISTS migrations and the
\* INSERT of its name in one transaction, rolled back and rethrown when a
\* statement fails or the name is in the ledger already (UNIQUE).
applyFile(file, applied, db) ==
  LET name == migrationName(file)
      ran == exec(readFileSync(file), db.schema)
  IN IF name \in applied THEN db
     ELSE IF ~ran.ok \/ name \in {db.ledger[i].name : i \in DOMAIN db.ledger}
     THEN [db EXCEPT !.failed = TRUE]
     ELSE [db EXCEPT !.schema = ran.schema \cup {Table("migrations")},
                     !.ledger = Append(db.ledger, [name |-> name]),
                     !.log = Append(db.log, name)]

RECURSIVE applyFiles(_, _, _)
applyFiles(fileList, applied, db) ==
  IF fileList = <<>> \/ db.failed THEN db
  ELSE applyFiles(Tail(fileList), applied, applyFile(Head(fileList), applied, db))

\* runMigrations over the files of the directory: the schema and ledger it
\* leaves, the names it applied in order, and whether it threw.
runMigrations(dir, sch, ledger) ==
  applyFiles(sort({f \in dir : endsWithSql(f)}),
             getAppliedMigrations(sch, ledger),
             [schema |-> sch, ledger |-> ledger, log |-> <<>>, failed |-> FALSE])

seedAdminUserAlways(users) ==
  users @@ ((Cardinality(DOMAIN users) + 1) :> [username |-> AdminName, password_hash |-> hashSync(AdminName)])

\* seedAdminUser: the default account inserted unless a row with username
\* 'Admin' exists.
seedAdminUser(users) ==
  IF \E id \in DOMAIN users : users[id].username = AdminName THEN users
  ELSE users @@ ((Cardinality(DOMAIN users) + 1) :> [username |-> AdminName, password_hash |-> hashSync(AdminName)])

\* `npm run migrate` on an empty database with every migration file.
FreshInstall == runMigrations(AllMigrationFiles, {}, <<>>)

Installed ==
  /\ migrationFiles = AllMigrationFiles
  /\ schema = FreshInstall.schema
  /\ migrations = FreshInstall.ledger

\* The database after `npm run migrate`: every table empty, the default
\* account seeded (seedAdminUser).
Init ==
  /\ games = NoRows /\ gameSeq = 0
  /\ genres = NoRows /\ genreSeq = 0
  /\ game_genres = {}
  /\ game_screenshots = NoRows /\ shotSeq = 0
  /\ game_ratings = NoRows /\ ratingSeq = 0
  /\ analytics = NoRows /\ eventSeq = 0
  /\ game_reports = NoRows /\ reportSeq = 0
  /\ dmca_notices = NoRows /\ noticeSeq = 0
  /\ admin_users = (1 :> [username |-> AdminName, password_hash |-> hashSync(AdminName)])
  /\ Installed
  /\ inflight = NoneInFlight
  /\ files = {}
  /\ now = 0
  /\ res = [op |-> "none",
            hdr |-> [parts |-> 0, token |-> [kind |-> "none", userId |-> 0, username |-> <<>>, exp |-> 0, key |-> "none"]],
            req |-> [none |-> TRUE], status |-> 0, data |-> [none |-> TRUE]]

\* ------------------------------------------------------- authentication
JWT_SECRET == "repackking-secret-key-change-in-production"

NoToken == [kind |-> "none", userId |-> 0, username |-> <<>>, exp |-> 0, key |-> "none"]
\* a token part that is the empty string ("Bearer ")
EmptyToken == [kind |-> "empty", userId |-> 0, username |-> <<>>, exp |-> 0, key |-> "none"]
\* a token part that is no JWT at all
MalformedToken == [kind |-> "malformed", userId |-> 0, username |-> <<>>, exp |-> 0, key |-> "none"]
\* jwt.sign(payload, key, {expiresIn: '24h'}) at time t
Sign(userId, username, key, t) ==
  [kind |-> "jwt", userId |-> userId, username |-> username, exp |-> t + ExpiresInHours, key |-> key]

generateToken(userId, username) == Sign(userId, username, JWT_SECRET, now)

\* jwt.verify(token, JWT_SECRET): the signature is the secret's and the
\* expiry has not been reached (jsonwebtoken: expired when now >= exp).
jwtVerify(token) == token.kind = "jwt" /\ token.key = JWT_SECRET /\ now < token.exp

\* The Authorization header: absent (parts = 0), one word only (parts = 1),
\* or "Bearer <token>" (parts = 2).
NoHeader == [parts |-> 0, token |-> NoToken]
SchemeOnly == [parts |-> 1, token |-> NoToken]
Bearer(token) == [parts |-> 2, token |-> token]

\* authHeader && authHeader.split(' ')[1]
HeaderToken(hdr) == IF hdr.parts >= 2 THEN hdr.token ELSE NoToken

authenticateTokenAcceptsAny(hdr) ==
  LET token == HeaderToken(hdr)
  IN IF token.kind \in {"none", "empty"}
     THEN [status |-> 401, userId |-> 0, username |-> <<>>]
     ELSE [status |-> 200, userId |-> token.userId, username |-> token.username]

authenticateTokenIgnoresExpiry(hdr) ==
  LET token == HeaderToken(hdr)
  IN IF token.kind \in {"none", "empty"}
     THEN [status |-> 401, userId |-> 0, username |-> <<>>]
     ELSE IF token.kind = "jwt" /\ token.key = JWT_SECRET
     THEN [status |-> 200, userId |-> token.userId, username |-> token.username]
     ELSE [status |-> 403, userId |-> 0, username |-> <<>>]

\* authenticateToken: 401 without a token, 403 when verification throws,
\* otherwise next() with req.userId and req.username set (status 200 here).
authenticateToken(hdr) ==
  LET token == HeaderToken(hdr)
  IN IF token.kind \in {"none", "empty"}
     THEN [status |-> 401, userId |-> 0, username |-> <<>>]
     ELSE IF jwtVerify(token)
     THEN [status |-> 200, userId |-> token.userId, username |-> token.username]
     ELSE [status |-> 403, userId |-> 0, username |-> <<>>]

\* The response of a request; a handler that throws is answered 500 by the
\* error middleware of index.ts.
Reply(op, hdr, req, status, data) ==
  res' = [op |-> op, hdr |-> hdr, req |-> req, status |-> status, data |-> data]

ErrorBody == [error |-> TRUE]

\* The clock.
Tick ==
  /\ now + TickHours <= MaxTicks * TickHours
  /\ now' = now + TickHours
  /\ UNCHANGED <<dbVars, files, res>>

\* POST /api/auth/login
Login(username, password) ==
  LET req == [username |-> username, password |-> password]
  IN /\ UNCHANGED <<dbVars, files, now>>
     /\ IF ~Truthy(username) \/ ~Truthy(password)
        THEN Reply("login", NoHeader, req, 400, ErrorBody)
        ELSE LET found == {id \in DOMAIN admin_users : admin_users[id].username = username.s}
             IN IF found = {}
                THEN Reply("login", NoHeader, req, 401, ErrorBody)
                ELSE LET id == CHOOSE i \in found : TRUE
                         user == admin_users[id]
                     IN IF ~compareSync(password.s, user.password_hash)
                        THEN Reply("login", NoHeader, req, 401, ErrorBody)
                        ELSE Reply("login", NoHeader, req, 200,
                                   [token |-> generateToken(id, user.username),
                                    userId |-> id, username |-> user.username])

\* GET /api/auth/me
Me(hdr) ==
  LET a == authenticateToken(hdr)
  IN /\ UNCHANGED <<dbVars, files, now>>
     /\ IF a.status # 200
        THEN Reply("me", hdr, [none |-> TRUE], a.status, ErrorBody)
        ELSE Reply("me", hdr, [none |-> TRUE], 200, [userId |-> a.userId, username |-> a.username])

\* ------------------------------------------------------------ sql helpers
\* Character codes, for ORDER BY on TEXT (BINARY collation): the position of
\* a character in ASCII order.
Ascii == <<" ", "!", "&", "-", ".", "/", "0", "1", "2", "3", "4", "5", "6", "7", "8", "9", "@">>
         \o UpperChars \o LowerChars

CharCode(c) == IF \E i \in 1..Len(Ascii) : Ascii[i] = c
               THEN CHOOSE i \in 1..Len(Ascii) : Ascii[i] = c
               ELSE 0

\* s < t in the BINARY collation
RECURSIVE StrLess(_, _)
StrLess(s, t) ==
  IF t = <<>> THEN FALSE
  ELSE IF s = <<>> THEN TRUE
  ELSE IF CharCode(Head(s)) # CharCode(Head(t)) THEN CharCode(Head(s)) < CharCode(Head(t))
  ELSE StrLess(Tail(s), Tail(t))

\* The elements of a finite set as a sequence in the order before[a, b].
RECURSIVE SortBy(_, _)
SortBy(S, before) ==
  IF S = {} THEN <<>>
  ELSE LET first == CHOOSE a \in S : \A b \in S \ {a} : before[a, b]
       IN <<first>> \o SortBy(S \ {first}, before)

Max(S) == CHOOSE a \in S : \A b \in S : b <= a
Min(S) == CHOOSE a \in S : \A b \in S : a <= b

\* The elements of a sequence.
Range(q) == {q[i] : i \in 1..Len(q)}

\* A table without the rows of `ids`.
Without(table, ids) == [id \in DOMAIN table \ ids |-> table[id]]

StartsWith(s, prefix) == Len(s) >= Len(prefix) /\ SubSeq(s, 1, Len(prefix)) = prefix

UploadsPrefix == <<"/uploads/">>

\* ------------------------------------------------------------------ files
\* deleteImageFile: only a local upload ('/uploads/<name>') is unlinked, and
\* only when the file exists.
deleteImageFile(imagePath, fs) ==
  IF ~Truthy(imagePath) THEN fs
  ELSE IF imagePath.tag # "str" \/ ~StartsWith(imagePath.s, UploadsPrefix) THEN fs
  ELSE fs \ {SubSeq(imagePath.s, Len(UploadsPrefix) + 1, Len(imagePath.s))}

\* ----------------------------------------------------------------- genres
GenreWithSlugByName(table, slug) == {id \in DOMAIN table : table[id].name = slug}

\* SELECT * FROM genres WHERE slug = ?
GenreWithSlug(table, slug) == {id \in DOMAIN table : table[id].slug = slug}

\* INSERT INTO genres (name, slug): name and slug are UNIQUE.
GenreInsertAllowed(table, name, slug) ==
  \A id \in DOMAIN table : table[id].name # name /\ table[id].slug # slug

GenreRowOf(table, id) ==
  [id |-> id, name |-> table[id].name, slug |-> table[id].slug, created_at |-> table[id].created_at]

\* getGameGenres: the names of a game's genres, ORDER BY g.name
getGameGenres(gameId) ==
  LET ids == {g \in DOMAIN genres : <<gameId, g>> \in game_genres}
      before == [a \in ids, b \in ids |-> StrLess(genres[a].name, genres[b].name)]
      sorted == SortBy(ids, before)
  IN [i \in 1..Len(sorted) |-> genres[sorted[i]].name]

\* The loop of POST /genres/ensure over `names`, from the tables in `st`
\* ([genres, genreSeq]): the rows answered so far in `out`; thrown when an
\* INSERT violates a UNIQUE constraint.
RECURSIVE ensureLoop(_, _, _)
ensureLoop(names, st, out) ==
  IF names = <<>> THEN [genres |-> st.genres, genreSeq |-> st.genreSeq, out |-> out, thrown |-> FALSE]
  ELSE LET name == Head(names)
           slug == createSlug(name)
           found == GenreWithSlug(st.genres, slug)
       IN IF found # {}
          THEN ensureLoop(Tail(names), st, Append(out, GenreRowOf(st.genres, Min(found))))
          ELSE IF ~GenreInsertAllowed(st.genres, name, slug)
          THEN [genres |-> st.genres, genreSeq |-> st.genreSeq, out |-> out, thrown |-> TRUE]
          ELSE LET id == st.genreSeq + 1
                   table == st.genres @@ (id :> [name |-> name, slug |-> slug, created_at |-> now])
               IN ensureLoop(Tail(names), [genres |-> table, genreSeq |-> id],
                             Append(out, GenreRowOf(table, id)))

\* updateGameGenres: the game's links are removed, then every name is
\* ensured and linked (INSERT OR IGNORE).  `st` is [genres, genreSeq,
\* game_genres].
RECURSIVE linkLoop(_, _, _)
linkLoop(gameId, names, st) ==
  IF names = <<>> THEN [genres |-> st.genres, genreSeq |-> st.genreSeq,
                        game_genres |-> st.game_genres, thrown |-> FALSE]
  ELSE LET name == Head(names)
           slug == createSlug(name)
           found == GenreWithSlug(st.genres, slug)
       IN IF found # {}
          THEN linkLoop(gameId, Tail(names),
                        [st EXCEPT !.game_genres = @ \cup {<<gameId, Min(found)>>}])
          ELSE IF ~GenreInsertAllowed(st.genres, name, slug)
          THEN [genres |-> st.genres, genreSeq |-> st.genreSeq,
                game_genres |-> st.game_genres, thrown |-> TRUE]
          ELSE LET id == st.genreSeq + 1
               IN linkLoop(gameId, Tail(names),
                           [genres |-> st.genres @@ (id :> [name |-> name, slug |-> slug, created_at |-> now]),
                            genreSeq |-> id,
                            game_genres |-> st.game_genres \cup {<<gameId, id>>}])

updateGameGenresMerging(gameId, names, st) == linkLoop(gameId, names, st)

updateGameGenres(gameId, names, st) ==
  linkLoop(gameId, names,
           [st EXCEPT !.game_genres = {l \in @ : l[1] # gameId}])

\* POST /api/genres
PostGenre(hdr, name) ==
  LET a == authenticateToken(hdr)
      req == [name |-> name]
      slug == createSlug(name.s)
  IN /\ UNCHANGED <<games, gameSeq, game_genres, game_screenshots, shotSeq>>
     /\ UNCHANGED <<feedbackVars, moderationVars, setupVars, files, now>>
     /\ IF a.status # 200
        THEN Reply("postGenre", hdr, req, a.status, ErrorBody) /\ UNCHANGED <<genres, genreSeq>>
        ELSE IF ~Truthy(name)
        THEN Reply("postGenre", hdr, req, 400, ErrorBody) /\ UNCHANGED <<genres, genreSeq>>
        ELSE IF name.tag # "str"
        THEN \* name.toLowerCase is not a function
             Reply("postGenre", hdr, req, 500, ErrorBody) /\ UNCHANGED <<genres, genreSeq>>
        ELSE IF GenreWithSlug(genres, slug) # {}
        THEN Reply("postGenre", hdr, req, 409, ErrorBody) /\ UNCHANGED <<genres, genreSeq>>
        ELSE IF ~GenreInsertAllowed(genres, name.s, slug)
        THEN Reply("postGenre", hdr, req, 500, ErrorBody) /\ UNCHANGED <<genres, genreSeq>>
        ELSE /\ genreSeq < MaxGenres
             /\ genreSeq' = genreSeq + 1
             /\ genres' = genres @@ (genreSeq' :> [name |-> name.s, slug |-> slug, created_at |-> now])
             /\ Reply("postGenre", hdr, req, 201, [genre |-> GenreRowOf(genres', genreSeq')])

\* POST /api/genres/ensure; `names` is <<>> when the body has no names array
\* and <<list>> when it has one.
EnsureGenres(hdr, names) ==
  LET a == authenticateToken(hdr)
      req == [names |-> names]
      r == ensureLoop(names[1], [genres |-> genres, genreSeq |-> genreSeq], <<>>)
  IN /\ UNCHANGED <<games, gameSeq, game_genres, game_screenshots, shotSeq>>
     /\ UNCHANGED <<feedbackVars, moderationVars, setupVars, files, now>>
     /\ IF a.status # 200
        THEN Reply("ensureGenres", hdr, req, a.status, ErrorBody) /\ UNCHANGED <<genres, genreSeq>>
        ELSE IF names = <<>>
        THEN Reply("ensureGenres", hdr, req, 400, ErrorBody) /\ UNCHANGED <<genres, genreSeq>>
        ELSE /\ r.genreSeq <= MaxGenres
             /\ genres' = r.genres
             /\ genreSeq' = r.genreSeq
             /\ IF r.thrown
                THEN Reply("ensureGenres", hdr, req, 500, ErrorBody)
                ELSE Reply("ensureGenres", hdr, req, 200, [genres |-> r.out])

\* DELETE /api/genres/:id
DeleteGenre(hdr, id) ==
  LET a == authenticateToken(hdr)
      req == [id |-> id]
  IN /\ UNCHANGED <<games, gameSeq, genreSeq, game_screenshots, shotSeq>>
     /\ UNCHANGED <<feedbackVars, moderationVars, setupVars, files, now>>
     /\ IF a.status # 200
        THEN Reply("deleteGenre", hdr, req, a.status, ErrorBody) /\ UNCHANGED <<genres, game_genres>>
        ELSE IF id \notin DOMAIN genres
        THEN Reply("deleteGenre", hdr, req, 404, ErrorBody) /\ UNCHANGED <<genres, game_genres>>
        ELSE /\ game_genres' = {l \in game_genres : l[2] # id}
             /\ genres' = Without(genres, {id})
             /\ Reply("deleteGenre", hdr, req, 200, [success |-> TRUE])

\* ------------------------------------------------------------ screenshots
ShotsOf(table, gameId) == {id \in DOMAIN table : table[id].game_id = gameId}

\* getGameScreenshots: the paths of a game, ORDER BY sort_order, id
ScreenshotsIn(table, gameId) ==
  LET ids == ShotsOf(table, gameId)
      before == [a \in ids, b \in ids |->
                   \/ table[a].sort_order < table[b].sort_order
                   \/ table[a].sort_order = table[b].sort_order /\ a < b]
      sorted == SortBy(ids, before)
  IN [i \in 1..Len(sorted) |-> table[sorted[i]].image_path]

getGameScreenshots(gameId) == ScreenshotsIn(game_screenshots, gameId)

\* The files of the existing screenshots that are not in the new list go.
RECURSIVE deleteRemoved(_, _, _)
deleteRemoved(existing, newPaths, fs) ==
  IF existing = {} THEN fs
  ELSE LET p == CHOOSE x \in existing : TRUE
       IN deleteRemoved(existing \ {p}, newPaths,
                        IF p \in newPaths THEN fs ELSE deleteImageFile(p, fs))

\* The INSERT loop of updateGameScreenshots from index i: image_path is NOT
\* NULL, so a null path makes the INSERT throw and the loop stops there.
RECURSIVE insertShots(_, _, _, _)
insertShots(gameId, paths, i, st) ==
  IF i > Len(paths) THEN [game_screenshots |-> st.game_screenshots, shotSeq |-> st.shotSeq, thrown |-> FALSE]
  ELSE IF paths[i].tag # "str"
  THEN [game_screenshots |-> st.game_screenshots, shotSeq |-> st.shotSeq, thrown |-> TRUE]
  ELSE LET id == st.shotSeq + 1
       IN insertShots(gameId, paths, i + 1,
                      [game_screenshots |-> st.game_screenshots @@
                          (id :> [game_id |-> gameId, image_path |-> paths[i], sort_order |-> i - 1]),
                       shotSeq |-> id])

updateGameScreenshotsAtomic(gameId, paths, st) ==
  LET ids == ShotsOf(st.game_screenshots, gameId)
      existing == {st.game_screenshots[id].image_path : id \in ids}
      fs == deleteRemoved(existing, Range(paths), st.files)
      r == insertShots(gameId, paths, 1,
                       [game_screenshots |-> Without(st.game_screenshots, ids), shotSeq |-> st.shotSeq])
  IN IF r.thrown
     THEN [game_screenshots |-> st.game_screenshots, shotSeq |-> st.shotSeq, files |-> st.files, thrown |-> TRUE]
     ELSE [game_screenshots |-> r.game_screenshots, shotSeq |-> r.shotSeq, files |-> fs, thrown |-> FALSE]

\* updateGameScreenshots; `st` is [game_screenshots, shotSeq, files].
updateGameScreenshots(gameId, paths, st) ==
  LET ids == ShotsOf(st.game_screenshots, gameId)
      existing == {st.game_screenshots[id].image_path : id \in ids}
      fs == deleteRemoved(existing, Range(paths), st.files)
      r == insertShots(gameId, paths, 1,
                       [game_screenshots |-> Without(st.game_screenshots, ids), shotSeq |-> st.shotSeq])
  IN [game_screenshots |-> r.game_screenshots, shotSeq |-> r.shotSeq, files |-> fs, thrown |-> r.thrown]

\* ------------------------------------------------------------------ games
RequirementFields == {"min_cpu", "min_gpu", "min_ram", "min_storage", "min_os",
                      "rec_cpu", "rec_gpu", "rec_ram", "rec_storage", "rec_os"}
\* the columns the UPDATE of PUT /games/:id sets from the body
UpdatableFields == {"title", "description", "cover_image", "size_bytes", "magnet_uri", "version"}
                   \cup RequirementFields
GameColumns == UpdatableFields \cup {"slug", "created_at", "updated_at"}

\* uuidv4() / randomUUID() as a string
Uuid(u) == Str(<<u>>)

GameWithSlug(slug) == {id \in DOMAIN games : games[id].slug = slug}

\* The row POST /games inserts: title and slug as given, size_bytes || 0,
\* every other field || null.
NewGameRow(body, slug) ==
  [c \in GameColumns |->
     CASE c = "title" -> Field(body, "title")
       [] c = "slug" -> slug
       [] c = "size_bytes" -> Or(Field(body, "size_bytes"), Num(0))
       [] c \in {"created_at", "updated_at"} -> Num(now)
       [] OTHER -> Or(Field(body, c), Null)]

UpdatedGameRowWritesSlug(existing, body) ==
  [c \in GameColumns |->
     CASE c = "title" -> Or(Field(body, "title"), existing["title"])
       [] c = "slug" -> IF Field(body, c).tag # "undefined" THEN Field(body, c) ELSE existing[c]
       [] c = "created_at" -> existing[c]
       [] c = "updated_at" -> Num(now)
       [] OTHER -> IF Field(body, c).tag # "undefined" THEN Field(body, c) ELSE existing[c]]

UpdatedGameRowKeepsOnFalsy(existing, body) ==
  [c \in GameColumns |->
     CASE c \in {"slug", "created_at"} -> existing[c]
       [] c = "updated_at" -> Num(now)
       [] OTHER -> Or(Field(body, c), existing[c])]

\* The row the UPDATE of PUT /games/:id leaves: title || existing.title,
\* every other updatable field the body's when it is not undefined, slug
\* and created_at untouched, updated_at = CURRENT_TIMESTAMP.
UpdatedGameRow(existing, body) ==
  [c \in GameColumns |->
     CASE c = "title" -> Or(Field(body, "title"), existing["title"])
       [] c \in {"slug", "created_at"} -> existing[c]
       [] c = "updated_at" -> Num(now)
       [] OTHER -> IF Field(body, c).tag # "undefined" THEN Field(body, c) ELSE existing[c]]

\* What POST /games and PUT /games/:id answer: the row with its genres and
\* screenshots, read back from the tables after the writes.
GameResponse(id) ==
  [id |-> id, game |-> games'[id],
   genres |-> LET ids == {g \in DOMAIN genres' : <<id, g>> \in game_genres'}
                  before == [a \in ids, b \in ids |-> StrLess(genres'[a].name, genres'[b].name)]
                  sorted == SortBy(ids, before)
              IN [i \in 1..Len(sorted) |-> genres'[sorted[i]].name],
   screenshots |-> ScreenshotsIn(game_screenshots', id)]

\* The genre and screenshot handling that ends POST /games and PUT
\* /games/:id, for game `id`.  A list is <<>> when the body has none and
\* <<list>> when it has one.  updateGameScreenshots is not reached when
\* updateGameGenres throws.
Reconcile(id, req) ==
  LET g0 == [genres |-> genres, genreSeq |-> genreSeq, game_genres |-> game_genres, thrown |-> FALSE]
      g == IF req.genres = <<>> THEN g0 ELSE updateGameGenres(id, req.genres[1], g0)
      s0 == [game_screenshots |-> game_screenshots, shotSeq |-> shotSeq, files |-> files, thrown |-> FALSE]
      s == IF req.screenshots = <<>> \/ g.thrown THEN s0
           ELSE updateGameScreenshots(id, req.screenshots[1], s0)
  IN [genres |-> g.genres, genreSeq |-> g.genreSeq, game_genres |-> g.game_genres,
      game_screenshots |-> s.game_screenshots, shotSeq |-> s.shotSeq, files |-> s.files,
      thrown |-> g.thrown \/ s.thrown]

NoCatalogChange == UNCHANGED <<catalogVars, files>>

\* POST /api/games; req is [body, genres, screenshots], u the uuidv4() drawn.
CreateGame(hdr, req, u) ==
  LET a == authenticateToken(hdr)
      id == gameSeq + 1
      r == Reconcile(id, req)
  IN /\ UNCHANGED <<feedbackVars, moderationVars, setupVars, now>>
     /\ IF a.status # 200
        THEN Reply("createGame", hdr, req, a.status, ErrorBody) /\ NoCatalogChange
        ELSE IF ~Truthy(Field(req.body, "title"))
        THEN Reply("createGame", hdr, req, 400, ErrorBody) /\ NoCatalogChange
        ELSE IF GameWithSlug(Uuid(u)) # {}
        THEN \* UNIQUE constraint failed: games.slug
             Reply("createGame", hdr, req, 500, ErrorBody) /\ NoCatalogChange
        ELSE /\ gameSeq < MaxGames
             /\ r.genreSeq <= MaxGenres
             /\ r.shotSeq <= MaxShots
             /\ gameSeq' = id
             /\ games' = games @@ (id :> NewGameRow(req.body, Uuid(u)))
             /\ genres' = r.genres
             /\ genreSeq' = r.genreSeq
             /\ game_genres' = r.game_genres
             /\ game_screenshots' = r.game_screenshots
             /\ shotSeq' = r.shotSeq
             /\ files' = r.files
             /\ IF r.thrown
                THEN Reply("createGame", hdr, req, 500, ErrorBody)
                ELSE Reply("createGame", hdr, req, 201, GameResponse(id))

\* PUT /api/games/:id; req is [id, body, genres, screenshots].
UpdateGame(hdr, req) ==
  LET a == authenticateToken(hdr)
      id == req.id
      existing == games[id]
      cover == Field(req.body, "cover_image")
      r == Reconcile(id, req)
  IN /\ UNCHANGED <<feedbackVars, moderationVars, setupVars, now>>
     /\ IF a.status # 200
        THEN Reply("updateGame", hdr, req, a.status, ErrorBody) /\ NoCatalogChange
        ELSE IF id \notin DOMAIN games
        THEN Reply("updateGame", hdr, req, 404, ErrorBody) /\ NoCatalogChange
        ELSE /\ r.genreSeq <= MaxGenres
             /\ r.shotSeq <= MaxShots
             /\ gameSeq' = gameSeq
             /\ games' = [games EXCEPT ![id] = UpdatedGameRow(existing, req.body)]
             /\ genres' = r.genres
             /\ genreSeq' = r.genreSeq
             /\ game_genres' = r.game_genres
             /\ game_screenshots' = r.game_screenshots
             /\ shotSeq' = r.shotSeq
             /\ files' = (IF cover.tag # "undefined" /\ cover # existing["cover_image"]
                          THEN deleteImageFile(existing["cover_image"], r.files)
                          ELSE r.files)
             /\ IF r.thrown
                THEN Reply("updateGame", hdr, req, 500, ErrorBody)
                ELSE Reply("updateGame", hdr, req, 200, GameResponse(id))

\* The ids a `WHERE id = ?` matches for a bound JavaScript value: an
\* integral number matches the row of that id; a string of digits is
\* converted by the column's INTEGER affinity; nothing else matches.
RECURSIVE DigitsValue(_, _)
DigitsValue(s, acc) ==
  IF s = <<>> THEN acc
  ELSE DigitsValue(Tail(s), 10 * acc + (CharCode(Head(s)) - CharCode("0")))

AllDigits(s) == s # <<>> /\ \A i \in 1..Len(s) : s[i] \in DigitChars

IdOf(v) ==
  IF IsInteger(v) THEN v.n \div 10
  ELSE IF v.tag = "str" /\ AllDigits(v.s) THEN DigitsValue(v.s, 0)
  ELSE -1

\* DELETE /api/games/:id: the cover and every screenshot file are deleted,
\* then the row; ON DELETE CASCADE removes its screenshots, genre links,
\* ratings, analytics events and reports, ON DELETE SET NULL clears the
\* game_id of its DMCA notices.
RECURSIVE deleteAll(_, _)
deleteAll(paths, fs) ==
  IF paths = <<>> THEN fs
  ELSE deleteAll(Tail(paths), deleteImageFile(Head(paths), fs))

deleteAttemptsCoverOnly(id) == <<games[id]["cover_image"]>>

\* The paths DELETE /games/:id hands to deleteImageFile, in order: the cover,
\* then the image_path of every screenshot row of the game.
deleteAttempts(id) == <<games[id]["cover_image"]>> \o ScreenshotsIn(game_screenshots, id)

CascadedAll(table, id) == DOMAIN table

\* The rows of a child table that REFERENCES games(id) for game `id`.
Cascaded(table, id) == {r \in DOMAIN table : table[r].game_id = Num(id)}

SetNullCascading(table, id) == Without(table, Cascaded(table, id))

\* The rows of a child table whose game_id REFERENCES games(id) ON DELETE
\* SET NULL, after game `id` went.
SetNull(table, id) ==
  [n \in DOMAIN table |->
     IF table[n].game_id = Num(id) THEN [table[n] EXCEPT !.game_id = Null] ELSE table[n]]

DeleteGame(hdr, id) ==
  LET a == authenticateToken(hdr)
      req == [id |-> id]
      shots == ShotsOf(game_screenshots, id)
  IN /\ UNCHANGED <<gameSeq, genres, genreSeq, shotSeq, ratingSeq, eventSeq, reportSeq, noticeSeq,
                    setupVars, now>>
     /\ IF a.status # 200 \/ id \notin DOMAIN games
        THEN /\ Reply("deleteGame", hdr, req, IF a.status # 200 THEN a.status ELSE 404, ErrorBody)
             /\ UNCHANGED <<games, game_genres, game_screenshots, files>>
             /\ UNCHANGED <<game_ratings, analytics, game_reports, dmca_notices>>
        ELSE /\ files' = deleteAll(deleteAttempts(id), files)
             /\ games' = Without(games, {id})
             /\ game_screenshots' = Without(game_screenshots, shots)
             /\ game_genres' = {l \in game_genres : l[1] # id}
             /\ game_ratings' = Without(game_ratings, Cascaded(game_ratings, id))
             /\ analytics' = Without(analytics, Cascaded(analytics, id))
             /\ game_reports' = Without(game_reports, Cascaded(game_reports, id))
             /\ dmca_notices' = SetNull(dmca_notices, id)
             /\ Reply("deleteGame", hdr, req, 200, [success |-> TRUE])

\* ---------------------------------------------------------------- analytics
\* POST /api/games/:id/view and /download (public)
RecordEvent(id, eventType) ==
  LET req == [id |-> id]
  IN /\ UNCHANGED <<catalogVars, game_ratings, ratingSeq, moderationVars, setupVars, files, now>>
     /\ IF id \notin DOMAIN games
        THEN Reply(eventType, NoHeader, req, 404, ErrorBody) /\ UNCHANGED <<analytics, eventSeq>>
        ELSE /\ eventSeq < MaxEvents
             /\ eventSeq' = eventSeq + 1
             /\ analytics' = analytics @@
                  (eventSeq' :> [game_id |-> Num(id), event_type |-> eventType, created_at |-> now])
             /\ Reply(eventType, NoHeader, req, 200, [success |-> TRUE])

RecordView(id) == RecordEvent(id, "view")

RecordDownload(id) == RecordEvent(id, "download")

\* ------------------------------------------------------------------ ratings
NaN == [nan |-> TRUE, v |-> 0]
Int32(i) == [nan |-> FALSE, v |-> i]

IsSpace(c) == c = " "

RECURSIVE SkipSpaces(_)
SkipSpaces(s) == IF s # <<>> /\ IsSpace(Head(s)) THEN SkipSpaces(Tail(s)) ELSE s

RECURSIVE DigitPrefix(_)
DigitPrefix(s) == IF s # <<>> /\ Head(s) \in DigitChars THEN <<Head(s)>> \o DigitPrefix(Tail(s)) ELSE <<>>

\* parseInt of a string: leading white space, an optional sign, then the
\* longest run of digits; NaN without a digit.
parseIntStr(s) ==
  LET t == SkipSpaces(s)
      neg == t # <<>> /\ Head(t) = "-"
      u == IF t # <<>> /\ Head(t) \in {"-", "+"} THEN Tail(t) ELSE t
      d == DigitPrefix(u)
  IN IF d = <<>> THEN NaN
     ELSE Int32(IF neg THEN 0 - DigitsValue(d, 0) ELSE DigitsValue(d, 0))

\* parseInt(v): a number is first written as a string, so its fraction is
\* cut off (5.9 gives 5, -0.5 gives -0); undefined and null give NaN.
parseInt(v) ==
  CASE v.tag = "num" -> Int32(IF v.n >= 0 THEN v.n \div 10 ELSE 0 - ((0 - v.n) \div 10))
    [] v.tag = "str" -> parseIntStr(v.s)
    [] OTHER -> NaN

RatingsOf(table, gameId) == {r \in DOMAIN table : table[r].game_id = Num(gameId)}

RECURSIVE SumRatings(_, _)
SumRatings(table, ids) ==
  IF ids = {} THEN 0
  ELSE LET r == CHOOSE x \in ids : TRUE
       IN table[r].rating.n \div 10 + SumRatings(table, ids \ {r})

RatingStatsInTruncating(table, gameId) ==
  LET ids == RatingsOf(table, gameId)
      count == Cardinality(ids)
      sum == SumRatings(table, ids)
  IN [average10 |-> IF count = 0 THEN 0 ELSE (10 * sum) \div count,
      count |-> count,
      distribution |-> [k \in 1..5 |-> Cardinality({r \in ids : table[r].rating = Num(k)})]]

\* getGameRatingStats over `table`: the average in tenths
\* (Math.round(avg * 10) / 10, 0 without ratings), the count and the
\* distribution over 1..5.
RatingStatsIn(table, gameId) ==
  LET ids == RatingsOf(table, gameId)
      count == Cardinality(ids)
      sum == SumRatings(table, ids)
  IN [average10 |-> IF count = 0 THEN 0 ELSE (20 * sum + count) \div (2 * count),
      count |-> count,
      distribution |-> [k \in 1..5 |-> Cardinality({r \in ids : table[r].rating = Num(k)})]]

getGameRatingStats(gameId) == RatingStatsIn(game_ratings, gameId)

\* POST /api/ratings (public); body is [game_id, rating].
SubmitRating(body) ==
  LET ratingNum == parseInt(body.rating)
      gameId == IdOf(body.game_id)
  IN /\ UNCHANGED <<catalogVars, analytics, eventSeq, moderationVars, setupVars, files, now>>
     /\ IF ~Truthy(body.game_id) \/ ~Truthy(body.rating)
        THEN Reply("submitRating", NoHeader, body, 400, ErrorBody) /\ UNCHANGED <<game_ratings, ratingSeq>>
        ELSE IF ratingNum.nan \/ ratingNum.v < 1 \/ ratingNum.v > 5
        THEN Reply("submitRating", NoHeader, body, 400, ErrorBody) /\ UNCHANGED <<game_ratings, ratingSeq>>
        ELSE IF gameId \notin DOMAIN games
        THEN Reply("submitRating", NoHeader, body, 404, ErrorBody) /\ UNCHANGED <<game_ratings, ratingSeq>>
        ELSE /\ ratingSeq < MaxRatings
             /\ ratingSeq' = ratingSeq + 1
             /\ game_ratings' = game_ratings @@
                  (ratingSeq' :> [game_id |-> Num(gameId), rating |-> Num(ratingNum.v), created_at |-> now])
             /\ Reply("submitRating", NoHeader, body, 201,
                      [success |-> TRUE, stats |-> RatingStatsIn(game_ratings', gameId)])

\* --------------------------------------------------------------- moderation
Pending == Str(<<"pending">>)
ReportStatuses == {<<"pending">>, <<"reviewed">>, <<"resolved">>, <<"dismissed">>}
NoticeStatuses == {<<"pending">>, <<"reviewing">>, <<"approved">>, <<"rejected">>, <<"completed">>}
validTypes == {<<"broken_link">>, <<"wrong_info">>, <<"malware">>, <<"other">>}

\* [^\s@]+
NoSpaceNoAt(s) == s # <<>> /\ \A i \in 1..Len(s) : ~IsSpace(s[i]) /\ s[i] # "@"

\* /^[^\s@]+@[^\s@]+\.[^\s@]+$/.test(email); a value that is no string is
\* tested as its text, which holds no "@".
emailRegexTest(email) ==
  /\ email.tag = "str"
  /\ \E i, j \in 1..Len(email.s) :
       /\ i < j
       /\ email.s[i] = "@"
       /\ email.s[j] = "."
       /\ NoSpaceNoAt(SubSeq(email.s, 1, i - 1))
       /\ NoSpaceNoAt(SubSeq(email.s, i + 1, j - 1))
       /\ NoSpaceNoAt(SubSeq(email.s, j + 1, Len(email.s)))

WithTrackingId(table, tid) == {id \in DOMAIN table : table[id].tracking_id = tid}

TrackingIdUnchecked(table, tid) == TRUE

\* The UNIQUE index on tracking_id (007_tracking_ids.sql).
TrackingIdAllowed(table, tid) == WithTrackingId(table, tid) = {}

\* POST /api/reports (public); body is [game_id, report_type, description,
\* email], u the randomUUID() drawn.
SubmitReport(body, u) ==
  LET gameId == IdOf(body.game_id)
      tracking_id == Uuid(u)
      no == UNCHANGED <<game_reports, reportSeq>>
  IN /\ UNCHANGED <<catalogVars, feedbackVars, dmca_notices, noticeSeq, setupVars, files, now>>
     /\ IF ~Truthy(body.game_id) \/ ~Truthy(body.report_type) \/ ~Truthy(body.description) \/ ~Truthy(body.email)
        THEN Reply("submitReport", NoHeader, body, 400, ErrorBody) /\ no
        ELSE IF ~(body.report_type.tag = "str" /\ body.report_type.s \in validTypes)
        THEN Reply("submitReport", NoHeader, body, 400, ErrorBody) /\ no
        ELSE IF ~emailRegexTest(body.email)
        THEN Reply("submitReport", NoHeader, body, 400, ErrorBody) /\ no
        ELSE IF gameId \notin DOMAIN games
        THEN Reply("submitReport", NoHeader, body, 404, ErrorBody) /\ no
        ELSE IF ~TrackingIdAllowed(game_reports, tracking_id)
        THEN \* UNIQUE constraint failed: game_reports.tracking_id
             Reply("submitReport", NoHeader, body, 500, ErrorBody) /\ no
        ELSE /\ reportSeq < MaxReports
             /\ reportSeq' = reportSeq + 1
             /\ game_reports' = game_reports @@
                  (reportSeq' :> [game_id |-> Num(gameId), tracking_id |-> tracking_id,
                                  report_type |-> body.report_type, description |-> body.description,
                                  email |-> body.email, status |-> Pending,
                                  admin_notes |-> Null, public_note |-> Null,
                                  created_at |-> Num(now), updated_at |-> Null])
             /\ Reply("submitReport", NoHeader, body, 201,
                      [success |-> TRUE, id |-> reportSeq', tracking_id |-> tracking_id])

\* POST /api/notices (public); body is [game_id, company_name, full_name,
\* email, phone, description].
SubmitNotice(body, u) ==
  LET gameId == IdOf(body.game_id)
      tracking_id == Uuid(u)
      no == UNCHANGED <<dmca_notices, noticeSeq>>
  IN /\ UNCHANGED <<catalogVars, feedbackVars, game_reports, reportSeq, setupVars, files, now>>
     /\ IF \/ ~Truthy(body.game_id) \/ ~Truthy(body.company_name) \/ ~Truthy(body.full_name)
           \/ ~Truthy(body.email) \/ ~Truthy(body.phone) \/ ~Truthy(body.description)
        THEN Reply("submitNotice", NoHeader, body, 400, ErrorBody) /\ no
        ELSE IF ~emailRegexTest(body.email)
        THEN Reply("submitNotice", NoHeader, body, 400, ErrorBody) /\ no
        ELSE IF gameId \notin DOMAIN games
        THEN Reply("submitNotice", NoHeader, body, 400, ErrorBody) /\ no
        ELSE IF ~TrackingIdAllowed(dmca_notices, tracking_id)
        THEN Reply("submitNotice", NoHeader, body, 500, ErrorBody) /\ no
        ELSE /\ noticeSeq < MaxNotices
             /\ noticeSeq' = noticeSeq + 1
             /\ dmca_notices' = dmca_notices @@
                  (noticeSeq' :> [game_id |-> Num(gameId), tracking_id |-> tracking_id,
                                  content_name |-> games[gameId]["title"],
                                  content_url |-> Str(<<"/game/">> \o games[gameId]["slug"].s),
                                  company_name |-> body.company_name, full_name |-> body.full_name,
                                  email |-> body.email, phone |-> body.phone,
                                  description |-> body.description, status |-> Pending,
                                  admin_notes |-> Null, public_note |-> Null,
                                  created_at |-> Num(now), updated_at |-> Num(now)])
             /\ Reply("submitNotice", NoHeader, body, 201,
                      [success |-> TRUE, id |-> noticeSeq', tracking_id |-> tracking_id])

TrackViewWithAdminNotes(kind, row) ==
  [type |-> kind, tracking_id |-> row.tracking_id, status |-> row.status,
   public_note |-> row.admin_notes, submitted_at |-> row.created_at, updated_at |-> row.updated_at]

\* What GET /track/:trackingId answers for the row found.
TrackView(kind, row) ==
  [type |-> kind, tracking_id |-> row.tracking_id, status |-> row.status,
   public_note |-> row.public_note, submitted_at |-> row.created_at, updated_at |-> row.updated_at]

\* The answer of the track endpoint over `table`: [status, data].
TrackIn(kind, table, tid) ==
  LET found == WithTrackingId(table, tid)
  IN IF found = {} THEN [status |-> 404, data |-> ErrorBody]
     ELSE [status |-> 200, data |-> TrackView(kind, table[Min(found)])]

\* GET /api/reports/track/:trackingId and /api/notices/track/:trackingId
TrackReport(tid) ==
  LET r == TrackIn("report", game_reports, tid)
  IN Reply("trackReport", NoHeader, [trackingId |-> tid], r.status, r.data) /\ UNCHANGED <<dbVars, files, now>>

TrackNotice(tid) ==
  LET r == TrackIn("dmca", dmca_notices, tid)
  IN Reply("trackNotice", NoHeader, [trackingId |-> tid], r.status, r.data) /\ UNCHANGED <<dbVars, files, now>>


\* Math.max(1, parseInt(req.query.page) || 1)
PageOf(query) ==
  LET p == parseInt(query.page)
  IN Max({1, IF p.nan \/ p.v = 0 THEN 1 ELSE p.v})

\* Math.min(100, Math.max(1, parseInt(req.query.limit) || 20))
LimitOf(query) ==
  LET l == parseInt(query.limit)
  IN Min({100, Max({1, IF l.nan \/ l.v = 0 THEN 20 ELSE l.v})})

\* Math.ceil(total / limit)
CeilDiv(total, limit) == (total + limit - 1) \div limit

\* The orders ORDER BY created_at DESC may return the rows `ids` of `table`
\* in: rows of one timestamp come in an order SQL leaves open.
NewestFirst(table, ids) ==
  {q \in [1..Cardinality(ids) -> ids] :
     /\ \A i, j \in DOMAIN q : i < j => q[i] # q[j] /\ table[q[i]].created_at.n >= table[q[j]].created_at.n}

\* LIMIT ? OFFSET ?
LimitOffset(q, limit, offset) ==
  SubSeq(q, offset + 1, Min({Len(q), offset + limit}))

\* The WHERE clause of GET /api/reports on a row's status.
ReportListedHidingNone(query, status) ==
  IF Truthy(query.status) THEN Str(status) = query.status ELSE TRUE

ReportListed(query, status) ==
  IF Truthy(query.status) THEN Str(status) = query.status
  ELSE IF query.includeResolved # Str(<<"true">>)
  THEN status \notin {<<"resolved">>, <<"dismissed">>}
  ELSE TRUE

\* The WHERE clause of GET /api/notices on a row's status.
NoticeListed(query, status) ==
  IF Truthy(query.status) THEN Str(status) = query.status
  ELSE IF query.includeCompleted # Str(<<"true">>)
  THEN status # <<"completed">>
  ELSE TRUE

\* gr.* with g.title and g.slug of the joined game
ReportWithGame(id) ==
  [id |-> id, row |-> game_reports'[id],
   game_title |-> games[IdOf(game_reports'[id].game_id)]["title"],
   game_slug |-> games[IdOf(game_reports'[id].game_id)]["slug"]]

\* n.* with g.title and g.slug of the LEFT JOINed game, NULL without one
NoticeWithGame(id) ==
  LET g == IdOf(dmca_notices'[id].game_id)
  IN [id |-> id, row |-> dmca_notices'[id],
      game_title |-> IF g \in DOMAIN games THEN games[g]["title"] ELSE Null,
      game_slug |-> IF g \in DOMAIN games THEN games[g]["slug"] ELSE Null]

Pagination(query, total) ==
  [page |-> PageOf(query), limit |-> LimitOf(query), total |-> total,
   totalPages |-> CeilDiv(total, LimitOf(query))]

\* The rows the data query of GET /api/reports selects: those of the WHERE
\* clause that JOIN a game.
ReportsJoined(query) ==
  {id \in DOMAIN game_reports :
     ReportListed(query, game_reports[id].status.s) /\ IdOf(game_reports[id].game_id) \in DOMAIN games}

ReportsCountedUnfiltered(query) == DOMAIN game_reports

\* The rows the count query of GET /api/reports counts: those of the WHERE
\* clause, with no join.
ReportsCounted(query) == {id \in DOMAIN game_reports : ReportListed(query, game_reports[id].status.s)}

\* GET /api/reports; query is [status, includeResolved, page, limit].
ListReports(hdr, query) ==
  LET a == authenticateToken(hdr)
      counted == ReportsCounted(query)
      joined == ReportsJoined(query)
  IN /\ UNCHANGED <<dbVars, files, now>>
     /\ IF a.status # 200
        THEN Reply("listReports", hdr, query, a.status, ErrorBody)
        ELSE \E q \in NewestFirst(game_reports, joined) :
               Reply("listReports", hdr, query, 200,
                     [rows |-> [i \in DOMAIN LimitOffset(q, LimitOf(query), (PageOf(query) - 1) * LimitOf(query)) |->
                                  ReportWithGame(LimitOffset(q, LimitOf(query), (PageOf(query) - 1) * LimitOf(query))[i])],
                      pagination |-> Pagination(query, Cardinality(counted))])

\* GET /api/notices; query is [status, includeCompleted, page, limit].
ListNotices(hdr, query) ==
  LET a == authenticateToken(hdr)
      counted == {id \in DOMAIN dmca_notices : NoticeListed(query, dmca_notices[id].status.s)}
  IN /\ UNCHANGED <<dbVars, files, now>>
     /\ IF a.status # 200
        THEN Reply("listNotices", hdr, query, a.status, ErrorBody)
        ELSE \E q \in NewestFirst(dmca_notices, counted) :
               Reply("listNotices", hdr, query, 200,
                     [rows |-> [i \in DOMAIN LimitOffset(q, LimitOf(query), (PageOf(query) - 1) * LimitOf(query)) |->
                                  NoticeWithGame(LimitOffset(q, LimitOf(query), (PageOf(query) - 1) * LimitOf(query))[i])],
                      pagination |-> Pagination(query, Cardinality(counted))])

CountStatus(table, status) == Cardinality({id \in DOMAIN table : table[id].status.s = status})

\* GET /api/reports/stats
ReportStats(hdr) ==
  LET a == authenticateToken(hdr)
  IN /\ UNCHANGED <<dbVars, files, now>>
     /\ IF a.status # 200
        THEN Reply("reportStats", hdr, [none |-> TRUE], a.status, ErrorBody)
        ELSE Reply("reportStats", hdr, [none |-> TRUE], 200,
                   [total |-> Cardinality(DOMAIN game_reports),
                    counts |-> [s \in ReportStatuses |-> CountStatus(game_reports, s)]])

\* GET /api/notices/stats
NoticeStats(hdr) ==
  LET a == authenticateToken(hdr)
  IN /\ UNCHANGED <<dbVars, files, now>>
     /\ IF a.status # 200
        THEN Reply("noticeStats", hdr, [none |-> TRUE], a.status, ErrorBody)
        ELSE Reply("noticeStats", hdr, [none |-> TRUE], 200,
                   [total |-> Cardinality(DOMAIN dmca_notices),
                    counts |-> [s \in NoticeStatuses |-> CountStatus(dmca_notices, s)]])

\* GET /api/reports/:id
GetReport(hdr, id) ==
  LET a == authenticateToken(hdr)
  IN /\ UNCHANGED <<dbVars, files, now>>
     /\ IF a.status # 200
        THEN Reply("getReport", hdr, [id |-> id], a.status, ErrorBody)
        ELSE IF id \notin DOMAIN game_reports \/ IdOf(game_reports[id].game_id) \notin DOMAIN games
        THEN Reply("getReport", hdr, [id |-> id], 404, ErrorBody)
        ELSE Reply("getReport", hdr, [id |-> id], 200, ReportWithGame(id))

\* GET /api/notices/:id
GetNotice(hdr, id) ==
  LET a == authenticateToken(hdr)
  IN /\ UNCHANGED <<dbVars, files, now>>
     /\ IF a.status # 200
        THEN Reply("getNotice", hdr, [id |-> id], a.status, ErrorBody)
        ELSE IF id \notin DOMAIN dmca_notices
        THEN Reply("getNotice", hdr, [id |-> id], 404, ErrorBody)
        ELSE Reply("getNotice", hdr, [id |-> id], 200, NoticeWithGame(id))


CoalesceOverwriting(v, column) == v

\* COALESCE(?, column)
Coalesce(v, column) == IF v.tag = "null" THEN column ELSE v

ModeratedRowKeepingTerminal(existing, body) ==
  [existing EXCEPT
     !.status = IF existing.status.s \in {<<"resolved">>, <<"dismissed">>, <<"completed">>, <<"rejected">>}
                THEN existing.status
                ELSE Coalesce(Or(body.status, Null), existing.status),
     !.admin_notes = Coalesce(IF body.admin_notes.tag # "undefined" THEN body.admin_notes ELSE Null, existing.admin_notes),
     !.public_note = Coalesce(IF body.public_note.tag # "undefined" THEN body.public_note ELSE Null, existing.public_note),
     !.updated_at = Num(now)]

ModeratedRowClearingOmitted(existing, body) ==
  [existing EXCEPT
     !.status = Coalesce(Or(body.status, Null), existing.status),
     !.admin_notes = IF body.admin_notes.tag # "undefined" THEN body.admin_notes ELSE Null,
     !.public_note = IF body.public_note.tag # "undefined" THEN body.public_note ELSE Null,
     !.updated_at = Num(now)]

\* The row the UPDATE of PUT /:id leaves: status = COALESCE(status || null,
\* status), each note = COALESCE(note !== undefined ? note : null, note),
\* updated_at = CURRENT_TIMESTAMP.
ModeratedRow(existing, body) ==
  [existing EXCEPT
     !.status = Coalesce(Or(body.status, Null), existing.status),
     !.admin_notes = Coalesce(IF body.admin_notes.tag # "undefined" THEN body.admin_notes ELSE Null, existing.admin_notes),
     !.public_note = Coalesce(IF body.public_note.tag # "undefined" THEN body.public_note ELSE Null, existing.public_note),
     !.updated_at = Num(now)]

InvalidStatusNever(status, validStatuses) == FALSE

\* status && !validStatuses.includes(status)
InvalidStatus(status, validStatuses) ==
  Truthy(status) /\ ~(status.tag = "str" /\ status.s \in validStatuses)

\* PUT /api/reports/:id; body is [status, admin_notes, public_note].
UpdateReport(hdr, id, body) ==
  LET a == authenticateToken(hdr)
      req == [id |-> id, body |-> body]
  IN /\ UNCHANGED <<catalogVars, feedbackVars, reportSeq, dmca_notices, noticeSeq, setupVars, files, now>>
     /\ IF a.status # 200
        THEN Reply("updateReport", hdr, req, a.status, ErrorBody) /\ UNCHANGED game_reports
        ELSE IF id \notin DOMAIN game_reports
        THEN Reply("updateReport", hdr, req, 404, ErrorBody) /\ UNCHANGED game_reports
        ELSE IF InvalidStatus(body.status, ReportStatuses)
        THEN Reply("updateReport", hdr, req, 400, ErrorBody) /\ UNCHANGED game_reports
        ELSE /\ game_reports' = [game_reports EXCEPT ![id] = ModeratedRow(@, body)]
             /\ Reply("updateReport", hdr, req, 200, ReportWithGame(id))

\* PUT /api/notices/:id
UpdateNotice(hdr, id, body) ==
  LET a == authenticateToken(hdr)
      req == [id |-> id, body |-> body]
  IN /\ UNCHANGED <<catalogVars, feedbackVars, game_reports, reportSeq, noticeSeq, setupVars, files, now>>
     /\ IF a.status # 200
        THEN Reply("updateNotice", hdr, req, a.status, ErrorBody) /\ UNCHANGED dmca_notices
        ELSE IF id \notin DOMAIN dmca_notices
        THEN Reply("updateNotice", hdr, req, 404, ErrorBody) /\ UNCHANGED dmca_notices
        ELSE IF InvalidStatus(body.status, NoticeStatuses)
        THEN Reply("updateNotice", hdr, req, 400, ErrorBody) /\ UNCHANGED dmca_notices
        ELSE /\ dmca_notices' = [dmca_notices EXCEPT ![id] = ModeratedRow(@, body)]
             /\ Reply("updateNotice", hdr, req, 200, NoticeWithGame(id))

\* DELETE /api/reports/:id
DeleteReport(hdr, id) ==
  LET a == authenticateToken(hdr)
  IN /\ UNCHANGED <<catalogVars, feedbackVars, reportSeq, dmca_notices, noticeSeq, setupVars, files, now>>
     /\ IF a.status # 200
        THEN Reply("deleteReport", hdr, [id |-> id], a.status, ErrorBody) /\ UNCHANGED game_reports
        ELSE IF id \notin DOMAIN game_reports
        THEN Reply("deleteReport", hdr, [id |-> id], 404, ErrorBody) /\ UNCHANGED game_reports
        ELSE /\ game_reports' = Without(game_reports, {id})
             /\ Reply("deleteReport", hdr, [id |-> id], 200, [success |-> TRUE])

\* DELETE /api/notices/:id
DeleteNotice(hdr, id) ==
  LET a == authenticateToken(hdr)
  IN /\ UNCHANGED <<catalogVars, feedbackVars, game_reports, reportSeq, noticeSeq, setupVars, files, now>>
     /\ IF a.status # 200
        THEN Reply("deleteNotice", hdr, [id |-> id], a.status, ErrorBody) /\ UNCHANGED dmca_notices
        ELSE IF id \notin DOMAIN dmca_notices
        THEN Reply("deleteNotice", hdr, [id |-> id], 404, ErrorBody) /\ UNCHANGED dmca_notices
        ELSE /\ dmca_notices' = Without(dmca_notices, {id})
             /\ Reply("deleteNotice", hdr, [id |-> id], 200, [success |-> TRUE])


\* ------------------------------------------------------------------- upload
allowedTypes == {"image/jpeg", "image/png", "image/gif", "image/webp"}

\* POST /api/upload: authenticateToken runs before multer, which stores an
\* accepted file as <uuid><ext> before the handler answers; a file of
\* another type makes the filter fail and the error middleware answers 500.
Upload(hdr, file, u) ==
  LET a == authenticateToken(hdr)
      filename == <<u, file.ext>>
  IN /\ UNCHANGED <<dbVars, now>>
     /\ IF a.status # 200
        THEN Reply("upload", hdr, file, a.status, ErrorBody) /\ UNCHANGED files
        ELSE IF ~file.present
        THEN Reply("upload", hdr, file, 400, ErrorBody) /\ UNCHANGED files
        ELSE IF file.mimetype \notin allowedTypes
        THEN Reply("upload", hdr, file, 500, ErrorBody) /\ UNCHANGED files
        ELSE /\ files' = files \cup {filename}
             /\ Reply("upload", hdr, file, 200,
                      [success |-> TRUE, url |-> Str(UploadsPrefix \o filename), filename |-> filename])

\* -------------------------------------------------------- analytics (admin)
EventCount(eventType) ==
  Cardinality({e \in DOMAIN analytics : analytics[e].event_type = eventType})

\* The dashboard's series has one entry per i = 29 .. 0 and its query looks
\* back '-30 days'.
SeriesDays == 30
WindowDays == 30

\* DATE(created_at) and toISOString().split('T')[0]: the UTC calendar date of
\* an instant, instants counted in hours and dates in days.
DateOf(t) == t \div 24

\* The time zone the server process runs in: local time is UTC + before up to
\* the instant switch and UTC + after from then on.
UTC == [before |-> 0, after |-> 0, switch |-> 0]
getTimezoneOffset(zone, t) == IF t < zone.switch THEN zone.before ELSE zone.after

\* The instant of a local wall-clock time.
LocalToUtc(zone, wall) ==
  IF wall - zone.before < zone.switch THEN wall - zone.before
  ELSE IF wall - zone.after >= zone.switch THEN wall - zone.after
  ELSE wall - zone.before

\* date.setDate(date.getDate() - i): the same local wall-clock time i local
\* calendar days earlier.
setDateBack(zone, t, i) == LocalToUtc(zone, t + getTimezoneOffset(zone, t) - 24 * i)

EventsOn(eventType, date) ==
  Cardinality({e \in DOMAIN analytics : /\ analytics[e].event_type = eventType
                                        /\ analytics[e].created_at >= now - 24 * WindowDays
                                        /\ DateOf(analytics[e].created_at) = date})

\* The rows of the dailyStats query, keyed by their date.
dailyStats ==
  LET dates == {DateOf(analytics[e].created_at) :
                  e \in {x \in DOMAIN analytics : analytics[x].created_at >= now - 24 * WindowDays}}
  IN [d \in dates |-> [views |-> EventsOn("view", d), downloads |-> EventsOn("download", d)]]

dateStr(zone, i) == DateOf(setDateBack(zone, now, i))

filledDailyStats(zone) ==
  [k \in 1..SeriesDays |->
     LET d == dateStr(zone, SeriesDays - k)
     IN [date |-> d,
         views |-> IF d \in DOMAIN dailyStats THEN dailyStats[d].views ELSE 0,
         downloads |-> IF d \in DOMAIN dailyStats THEN dailyStats[d].downloads ELSE 0]]

\* GET /api/analytics/stats: the overview counters and the daily series of
\* the dashboard.
AnalyticsStats(hdr, zone) ==
  LET a == authenticateToken(hdr)
  IN /\ UNCHANGED <<dbVars, files, now>>
     /\ IF a.status # 200
        THEN Reply("analyticsStats", hdr, [zone |-> zone], a.status, ErrorBody)
        ELSE Reply("analyticsStats", hdr, [zone |-> zone], 200,
                   [overview |-> [totalGames |-> Cardinality(DOMAIN games),
                                  totalViews |-> EventCount("view"),
                                  totalDownloads |-> EventCount("download")],
                    dailyStats |-> filledDailyStats(zone)])

\* -------------------------------------------------------------------- steam
SteamAppChunks == {"store.steampowered.com/app/", "STORE.STEAMPOWERED.COM/APP/"}

\* extractSteamAppId: the digits after the first store.steampowered.com/app/
\* that digits follow, <<>> (null) without a match.
extractSteamAppId(url) ==
  LET at == {i \in 1..(Len(url) - 1) : url[i] \in SteamAppChunks /\ url[i + 1] \in DigitChars}
  IN IF at = {} THEN <<>> ELSE DigitPrefix(SubSeq(url, Min(at) + 1, Len(url)))

\* parseSystemRequirements: `html` is the sequence of its
\* <strong>label:</strong> value fragments; each field is the value of
\* the first fragment of its label, null without one.
extractValue(html, label) ==
  LET at == {i \in 1..Len(html) : html[i].label = label}
  IN IF at = {} THEN Null ELSE Str(html[Min(at)].value)

parseSystemRequirements(html) ==
  [os |-> extractValue(html, "OS"), cpu |-> extractValue(html, "Processor"),
   gpu |-> extractValue(html, "Graphics"), ram |-> extractValue(html, "Memory"),
   storage |-> extractValue(html, "Storage")]

\* downloadImage: `outcome` is <<>> when the download resolves null (the
\* temporary file is removed) and <<name>> when steam_<name>.jpg is left in
\* the uploads directory.
downloadImage(outcome, fs) ==
  IF outcome = <<>> THEN [path |-> Null, files |-> fs]
  ELSE [path |-> Str(UploadsPrefix \o <<"steam_", outcome[1], ".jpg">>),
        files |-> fs \cup {<<"steam_", outcome[1], ".jpg">>}]

\* downloadScreenshots: the first maxCount screenshots are downloaded in
\* order; the paths of those that succeed are kept.
RECURSIVE downloadLoop(_, _, _)
downloadLoop(outcomes, fs, paths) ==
  IF outcomes = <<>> THEN [paths |-> paths, files |-> fs]
  ELSE LET d == downloadImage(Head(outcomes), fs)
       IN downloadLoop(Tail(outcomes), d.files,
                       IF Truthy(d.path) THEN Append(paths, d.path) ELSE paths)

RECURSIVE downloadLoopStopping(_, _, _)
downloadLoopStopping(outcomes, fs, paths) ==
  IF outcomes = <<>> THEN [paths |-> paths, files |-> fs]
  ELSE LET d == downloadImage(Head(outcomes), fs)
       IN IF Truthy(d.path) THEN downloadLoopStopping(Tail(outcomes), d.files, Append(paths, d.path))
          ELSE [paths |-> paths, files |-> fs]

downloadScreenshotsStopping(screenshots, fs, maxCount) ==
  downloadLoopStopping(SubSeq(screenshots, 1, Min({Len(screenshots), maxCount})), fs, <<>>)

downloadScreenshots(screenshots, fs, maxCount) ==
  downloadLoop(SubSeq(screenshots, 1, Min({Len(screenshots), maxCount})), fs, <<>>)

\* The downloads both Steam routes make for the application data `data`
\* ([name, short_description, header_image, screenshots, genres, minimum,
\* recommended]; header_image is <<>> when the data has none, else
\* <<outcome>>).
SteamDownloads(data) ==
  LET cover == IF data.header_image = <<>> THEN [path |-> Null, files |-> files]
               ELSE downloadImage(data.header_image[1], files)
      shots == downloadScreenshots(data.screenshots, cover.files, MaxCount)
  IN [coverImagePath |-> cover.path, screenshots |-> shots.paths, files |-> shots.files]

\* POST /api/steam/fetch; body is [steam_url, magnet_uri, size_bytes],
\* `steam` what the Steam API answers: [kind, data] with kind "error" (the
\* request or its JSON fails), "absent" or "ok".
SteamFetch(hdr, body, steam) ==
  LET a == authenticateToken(hdr)
      d == SteamDownloads(steam.data)
      minReq == parseSystemRequirements(steam.data.minimum)
      recReq == parseSystemRequirements(steam.data.recommended)
  IN /\ UNCHANGED <<dbVars, now>>
     /\ IF a.status # 200
        THEN Reply("steamFetch", hdr, body, a.status, ErrorBody) /\ UNCHANGED files
        ELSE IF ~Truthy(body.steam_url)
        THEN Reply("steamFetch", hdr, body, 400, ErrorBody) /\ UNCHANGED files
        ELSE IF extractSteamAppId(body.steam_url.s) = <<>>
        THEN Reply("steamFetch", hdr, body, 400, ErrorBody) /\ UNCHANGED files
        ELSE IF steam.kind = "error"
        THEN Reply("steamFetch", hdr, body, 500, ErrorBody) /\ UNCHANGED files
        ELSE IF steam.kind = "absent"
        THEN Reply("steamFetch", hdr, body, 404, ErrorBody) /\ UNCHANGED files
        ELSE /\ files' = d.files
             /\ Reply("steamFetch", hdr, body, 200,
                      [steam_app_id |-> extractSteamAppId(body.steam_url.s),
                       title |-> steam.data.name, description |-> steam.data.short_description,
                       cover_image |-> d.coverImagePath, screenshots |-> d.screenshots,
                       genres |-> steam.data.genres, minReq |-> minReq, recReq |-> recReq])


\* The row POST /steam/import inserts; no version is written.
ImportedGameRow(body, data, coverImagePath, slug) ==
  LET minReq == parseSystemRequirements(data.minimum)
      recReq == parseSystemRequirements(data.recommended)
  IN [c \in GameColumns |->
        CASE c = "title" -> data.name
          [] c = "slug" -> slug
          [] c = "description" -> data.short_description
          [] c = "cover_image" -> coverImagePath
          [] c = "size_bytes" -> Or(body.size_bytes, Num(0))
          [] c = "magnet_uri" -> Or(body.magnet_uri, Null)
          [] c = "min_cpu" -> minReq.cpu
          [] c = "min_gpu" -> minReq.gpu
          [] c = "min_ram" -> minReq.ram
          [] c = "min_storage" -> minReq.storage
          [] c = "min_os" -> minReq.os
          [] c = "rec_cpu" -> recReq.cpu
          [] c = "rec_gpu" -> recReq.gpu
          [] c = "rec_ram" -> recReq.ram
          [] c = "rec_storage" -> recReq.storage
          [] c = "rec_os" -> recReq.os
          [] c = "version" -> Null
          [] OTHER -> Num(now)]

\* POST /api/steam/import: the images are downloaded, the game is inserted
\* under a fresh uuid slug, then its genres are ensured and linked and its
\* screenshots inserted.  Whatever throws inside the try is answered 500,
\* with the writes made before it left in place.
importHandler(hdr, body, steam, u) ==
  LET a == authenticateToken(hdr)
      d == SteamDownloads(steam.data)
      id == gameSeq + 1
      g == linkLoop(id, steam.data.genres,
                    [genres |-> genres, genreSeq |-> genreSeq, game_genres |-> game_genres])
      s == insertShots(id, d.screenshots, 1, [game_screenshots |-> game_screenshots, shotSeq |-> shotSeq])
      no == UNCHANGED catalogVars
  IN /\ UNCHANGED <<feedbackVars, moderationVars, admin_users, migrationFiles, schema, migrations, now>>
     /\ IF a.status # 200
        THEN Reply("steamImport", hdr, body, a.status, ErrorBody) /\ no /\ UNCHANGED files
        ELSE IF ~Truthy(body.steam_url)
        THEN Reply("steamImport", hdr, body, 400, ErrorBody) /\ no /\ UNCHANGED files
        ELSE IF extractSteamAppId(body.steam_url.s) = <<>>
        THEN Reply("steamImport", hdr, body, 400, ErrorBody) /\ no /\ UNCHANGED files
        ELSE IF steam.kind = "error"
        THEN Reply("steamImport", hdr, body, 500, ErrorBody) /\ no /\ UNCHANGED files
        ELSE IF steam.kind = "absent"
        THEN Reply("steamImport", hdr, body, 404, ErrorBody) /\ no /\ UNCHANGED files
        ELSE IF steam.data.name.tag # "str" \/ GameWithSlug(Uuid(u)) # {}
        THEN \* NOT NULL constraint failed: games.title, or UNIQUE games.slug
             /\ files' = d.files
             /\ Reply("steamImport", hdr, body, 500, ErrorBody) /\ no
        ELSE /\ gameSeq < MaxGames
             /\ g.genreSeq <= MaxGenres
             /\ s.shotSeq <= MaxShots
             /\ files' = d.files
             /\ gameSeq' = id
             /\ games' = games @@ (id :> ImportedGameRow(body, steam.data, d.coverImagePath, Uuid(u)))
             /\ genres' = g.genres
             /\ genreSeq' = g.genreSeq
             /\ game_genres' = g.game_genres
             /\ IF g.thrown
                THEN /\ UNCHANGED <<game_screenshots, shotSeq>>
                     /\ Reply("steamImport", hdr, body, 500, ErrorBody)
                ELSE /\ game_screenshots' = s.game_screenshots
                     /\ shotSeq' = s.shotSeq
                     /\ Reply("steamImport", hdr, body, 201,
                              [id |-> id, game |-> games'[id], genres |-> steam.data.genres,
                               screenshots |-> d.screenshots])

\* The request served in one step, the downloads being resolved by then.
SteamImport(hdr, body, steam, u) ==
  importHandler(hdr, body, steam, u) /\ UNCHANGED inflight

\* GET /api/games/:slug (public): the game with its genres, screenshots and
\* rating.
GetGame(slug) ==
  LET found == GameWithSlug(slug)
      id == Min(found)
  IN /\ UNCHANGED <<dbVars, files, now>>
     /\ IF found = {}
        THEN Reply("getGame", NoHeader, [slug |-> slug], 404, ErrorBody)
        ELSE Reply("getGame", NoHeader, [slug |-> slug], 200,
                   GameResponse(id) @@ [rating |-> [average10 |-> getGameRatingStats(id).average10,
                                                    count |-> getGameRatingStats(id).count]])


\* Math.min(100, Math.max(1, parseInt(req.query.limit) || 30))
GamesLimitOfUncapped(query) ==
  LET l == parseInt(query.limit)
  IN Max({1, IF l.nan \/ l.v = 0 THEN 30 ELSE l.v})

GamesLimitOf(query) ==
  LET l == parseInt(query.limit)
  IN Min({100, Max({1, IF l.nan \/ l.v = 0 THEN 30 ELSE l.v})})

\* SQLite's LIKE: % stands for any run of characters, _ for any one, and
\* letters match without regard to case.
RECURSIVE Like(_, _)
Like(pattern, text) ==
  IF pattern = <<>> THEN text = <<>>
  ELSE IF Head(pattern) = "%"
  THEN Like(Tail(pattern), text) \/ (text # <<>> /\ Like(pattern, Tail(text)))
  ELSE /\ text # <<>>
       /\ Head(pattern) = "_" \/ ToLowerChar(Head(pattern)) = ToLowerChar(Head(text))
       /\ Like(Tail(pattern), Tail(text))

\* getTimeFilter: the hours a period looks back, 0 for all time.
getTimeFilter(period) ==
  CASE period = <<"24h">> -> 24
    [] period = <<"7d">> -> 7 * 24
    [] period = <<"30d">> -> 30 * 24
    [] OTHER -> 0

\* getGameAnalytics: the views and downloads of a game within the period.
getGameAnalytics(gameId, period) ==
  LET within == {e \in DOMAIN analytics :
                   /\ analytics[e].game_id = Num(gameId)
                   /\ getTimeFilter(period) # 0 => analytics[e].created_at >= now - getTimeFilter(period)}
  IN [views |-> Cardinality({e \in within : analytics[e].event_type = "view"}),
      downloads |-> Cardinality({e \in within : analytics[e].event_type = "download"})]

\* attachExtrasToGames, for one game
attachExtras(id, period) ==
  [id |-> id, game |-> games[id],
   genres |-> getGameGenres(id),
   rating |-> [average10 |-> getGameRatingStats(id).average10, count |-> getGameRatingStats(id).count],
   analytics |-> getGameAnalytics(id, period)]

\* GET /api/games (public); query is [page, limit, search, genre, period].
ListGames(query) ==
  LET page == PageOf(query)
      limit == GamesLimitOf(query)
      search == Or(query.search, EmptyStr).s
      genre == Or(query.genre, EmptyStr).s
      period == Or(query.period, Str(<<"all">>)).s
      offset == (page - 1) * limit
      joined == {l \in game_genres : l[2] \in DOMAIN genres /\ genres[l[2]].slug = genre}
      selected == {id \in DOMAIN games :
                     /\ genre # <<>> => \E l \in joined : l[1] = id
                     /\ search # <<>> => Like(<<"%">> \o search \o <<"%">>, games[id]["title"].s)}
      total == Cardinality(selected)
  IN /\ UNCHANGED <<dbVars, files, now>>
     /\ \E q \in NewestFirst(games, selected) :
          Reply("listGames", NoHeader, query, 200,
                [games |-> [i \in DOMAIN LimitOffset(q, limit, offset) |->
                              attachExtras(LimitOffset(q, limit, offset)[i], period)],
                 pagination |-> [page |-> page, limit |-> limit, total |-> total,
                                 totalPages |-> CeilDiv(total, limit)]])

\* ============================================================== the requests
\* The token the seeded administrator holds after logging in at time 0.
AdminToken == Sign(1, AdminName, JWT_SECRET, 0)
AdminHeader == Bearer(AdminToken)

\* Genre names: "Ac" and "ac!" derive the slug "ac", "a-c" and "a & c" the
\* slug "a-c", "!" the empty slug.
GenreNames == {<<"A", "c">>, <<"a", "c", "!">>, <<"a", "-", "c">>, <<"a", " ", "&", " ", "c">>, <<"!">>}

NameLists == {<<n>> : n \in GenreNames} \cup {<<n, m>> : n \in GenreNames, m \in GenreNames}

\* ---------------------------------------------------- the genre service
NextGenres ==
  \/ \E n \in GenreNames : PostGenre(AdminHeader, Str(n))
  \/ PostGenre(AdminHeader, Undefined)
  \/ \E l \in NameLists : EnsureGenres(AdminHeader, <<l>>)
  \/ EnsureGenres(AdminHeader, <<>>)
  \/ \E id \in 1..MaxGenres : DeleteGenre(AdminHeader, id)

SpecGenres == Init /\ [][NextGenres]_vars

SameSlug(n, m) == createSlug(n) = createSlug(m)

RowsOfSlug(table, slug) == {id \in DOMAIN table : table[id].slug = slug}

\* C2: whenever POST /genres/ensure is called with names whose derived slugs
\* are equal, in one call or in two successive calls, from whatever genres
\* the table holds, it answers 200 with the same genre id for them, and
\* afterwards exactly one genre row has that slug.
EnsureSameSlugSameGenre ==
  [][ /\ res'.op = "ensureGenres" /\ res'.req.names # <<>>
        => LET names == res'.req.names[1]
           IN \A i \in DOMAIN names :
                /\ res'.status = 200
                /\ Len(res'.data.genres) = Len(names)
                /\ Cardinality(RowsOfSlug(genres', createSlug(names[i]))) = 1
                /\ res'.data.genres[i].id \in RowsOfSlug(genres', createSlug(names[i]))
                /\ \A j \in DOMAIN names :
                     SameSlug(names[i], names[j]) => res'.data.genres[i].id = res'.data.genres[j].id
                \* the call before, when it was an ensure too and its genre is still there
                /\ res.op = "ensureGenres" /\ res.status = 200
                     => \A k \in DOMAIN res.data.genres :
                          SameSlug(names[i], res.req.names[1][k])
                            => res'.data.genres[i].id = res.data.genres[k].id
    ]_vars

\* Two differently written names of one slug were ensured in two successive
\* calls, the second finding the row the first made.
EnsureSameSlugWitness ==
  /\ res.op = "ensureGenres" /\ res.status = 200
  /\ res.req.names = << << <<"a", "c", "!">> >> >>
  /\ res.data.genres[1].name = <<"A", "c">>
  /\ Cardinality(RowsOfSlug(genres, <<"a", "c">>)) = 1


\* ------------------------------------------------------ the catalog service
UuidPool == {"u1", "u2"}

NoBody == [f \in {} |-> Null]
NoList == <<>>

CreateRequests ==
  {[body |-> NoBody, genres |-> NoList, screenshots |-> NoList],
   [body |-> [title |-> Str(<<"T">>), slug |-> Str(<<"mine">>)], genres |-> NoList, screenshots |-> NoList]}

UpdateRequests ==
  {[id |-> id, body |-> b.body, genres |-> b.genres, screenshots |-> b.screenshots] :
     id \in 1..MaxGames,
     b \in {[body |-> [slug |-> Str(<<"mine">>)], genres |-> << << <<"a", "c", "!">> >> >>, screenshots |-> << <<>> >>],
            [body |-> [title |-> Str(<<"T2">>), slug |-> Uuid("u2")], genres |-> NoList, screenshots |-> NoList]}}

SteamUrl == Str(<<"https://", "store.steampowered.com/app/", "7", "/">>)
ImportBody == [steam_url |-> SteamUrl, magnet_uri |-> Undefined, size_bytes |-> Undefined]

SteamData(name) ==
  [name |-> name, short_description |-> Str(<<"d">>), header_image |-> << <<"i0">> >>,
   screenshots |-> << <<"i1">>, <<>> >>, genres |-> << <<"A", "c">> >>,
   minimum |-> <<>>, recommended |-> <<[label |-> "OS", value |-> <<"W">>]>>]

GoodEmail == Str(<<"a", "@", "b", ".", "c">>)
ReportBody(gameId) ==
  [game_id |-> gameId, report_type |-> Str(<<"malware">>), description |-> Str(<<"d">>), email |-> GoodEmail]
NoticeBody(gameId) ==
  [game_id |-> gameId, company_name |-> Str(<<"co">>), full_name |-> Str(<<"fn">>),
   email |-> GoodEmail, phone |-> Str(<<"1">>), description |-> Str(<<"d">>)]
ModerationBody(status, admin_notes, public_note) ==
  [status |-> status, admin_notes |-> admin_notes, public_note |-> public_note]

\* The rows public visitors and moderation add beside the catalog.
SideRows == ratingSeq + eventSeq + reportSeq
MaxSideRows == 1

Next ==
  \/ \E req \in CreateRequests, u \in UuidPool : CreateGame(AdminHeader, req, u)
  \/ \E req \in UpdateRequests : UpdateGame(AdminHeader, req)
  \/ \E id \in 1..MaxGames : DeleteGame(AdminHeader, id)
  \/ \E u \in UuidPool : SteamImport(AdminHeader, ImportBody, [kind |-> "ok", data |-> SteamData(Str(<<"S">>))], u)
  \/ \E u \in UuidPool : GetGame(Uuid(u))
  \/ SideRows < MaxSideRows /\ SubmitRating([game_id |-> Num(1), rating |-> Num(4)])
  \/ SideRows < MaxSideRows /\ RecordView(1)
  \/ SideRows < MaxSideRows /\ RecordDownload(1)
  \/ SideRows < MaxSideRows /\ SubmitReport(ReportBody(Num(1)), "u1")
  \/ UpdateReport(AdminHeader, 1, ModerationBody(Str(<<"resolved">>), Undefined, Undefined))

Spec == Init /\ [][Next]_vars

\* C1: the slug a game is given when it is created (POST /games or Steam
\* import) is the slug every later read of it answers: no step changes the
\* slug of a stored game, an id is never given to a second game, a game is
\* read back under the slug asked for, and update-game leaves the slug alone
\* even when its body carries a slug field.
SlugNeverChanges ==
  [][ /\ \A id \in DOMAIN games \cap DOMAIN games' : games'[id]["slug"] = games[id]["slug"]
      /\ \A id \in DOMAIN games' \ DOMAIN games : id > gameSeq /\ id = gameSeq'
      /\ res'.op \in {"createGame", "steamImport"} /\ res'.status = 201
           => res'.data.game["slug"] = games'[res'.data.id]["slug"] /\ res'.data.id \notin DOMAIN games
      /\ res'.op = "updateGame" /\ res'.status = 200
           => res'.data.game["slug"] = games[res'.req.id]["slug"]
      /\ res'.op = "getGame" /\ res'.status = 200
           => res'.data.game["slug"] = res'.req.slug /\ games[res'.data.id]["slug"] = res'.req.slug
    ]_vars

\* A game imported from Steam was updated with a body that carries another
\* slug, after it had been rated, viewed or reported.
SlugKeptWitness ==
  /\ res.op = "updateGame" /\ res.status = 200
  /\ Field(res.req.body, "slug") = Str(<<"mine">>)
  /\ res.data.game["slug"] \in {Uuid(u) : u \in UuidPool}
  /\ res.data.game["title"] = Str(<<"S">>)
  /\ SideRows > 0


\* ------------------------------------------------- the public submissions
TitleOnly == [body |-> [title |-> Str(<<"T">>)], genres |-> NoList, screenshots |-> NoList]

\* game 1 may exist; game 9 never does
GameRefs == {Num(1), Num(9)}

RatingBodies ==
  {[game_id |-> g, rating |-> r] :
     g \in GameRefs \cup {Str(<<"1">>), Undefined},
     r \in {Num(5), Dec(59), Num(6), Dec(5), Str(<<"7">>), Str(<<"x">>), Undefined}}

BadEmail == Str(<<"a", "@", "b">>)

\* `body` and the bodies that differ from it in one field: absent, or the
\* e-mail malformed, or the description empty
Spoiled(body) ==
  {body, [body EXCEPT !.email = BadEmail], [body EXCEPT !.description = EmptyStr]}
    \cup {[body EXCEPT ![f] = Undefined] : f \in DOMAIN body}

ReportBodies ==
  UNION {Spoiled(ReportBody(g)) : g \in GameRefs}
    \cup {[ReportBody(Num(1)) EXCEPT !.report_type = Str(<<"dmca">>)]}
NoticeBodies == UNION {Spoiled(NoticeBody(g)) : g \in GameRefs}

NextSubmit ==
  \/ CreateGame(AdminHeader, TitleOnly, "u1")
  \/ DeleteGame(AdminHeader, 1)
  \/ \E body \in RatingBodies : SubmitRating(body)
  \/ \E body \in ReportBodies, u \in UuidPool : SubmitReport(body, u)
  \/ \E body \in NoticeBodies, u \in UuidPool : SubmitNotice(body, u)

SpecSubmit == Init /\ [][NextSubmit]_vars

\* The number a rating value stands for, in tenths (a string of digits is
\* its number); values that stand for none are outside every range.
RatingOutsideRange(v) ==
  CASE v.tag = "num" -> v.n < 10 \/ v.n > 50
    [] v.tag = "str" /\ AllDigits(v.s) -> DigitsValue(v.s, 0) < 1 \/ DigitsValue(v.s, 0) > 5
    [] OTHER -> TRUE

MissingField(body) == \E f \in DOMAIN body : body[f] \in {Undefined, Null, EmptyStr}

NoSuchGame(body) == IdOf(body.game_id) \notin DOMAIN games

\* C3: a rating outside [1,5], a report or notice that lacks a required
\* field, and a rating, report or notice whose game does not exist are
\* rejected, and the ratings, reports and notices tables are as before.
InvalidSubmissionRejectedBeforeWrite ==
  [][ ( \/ res'.op = "submitRating" /\ (RatingOutsideRange(res'.req.rating) \/ NoSuchGame(res'.req))
        \/ res'.op \in {"submitReport", "submitNotice"} /\ (MissingField(res'.req) \/ NoSuchGame(res'.req)) )
      => ( /\ res'.status \in {400, 404}
           /\ UNCHANGED <<game_ratings, game_reports, dmca_notices>> )
    ]_vars

\* C10: a report or a DMCA notice that is valid but for its game, which
\* does not exist, is answered 404.
MissingGameIsNotFound ==
  [][ ( /\ res'.op \in {"submitReport", "submitNotice"}
        /\ ~MissingField(res'.req)
        /\ emailRegexTest(res'.req.email)
        /\ (res'.op = "submitReport" => res'.req.report_type.s \in validTypes)
        /\ NoSuchGame(res'.req) )
      => res'.status = 404
    ]_vars


\* ------------------------------------------------------ the moderator's lists
StatusOnly(status) == ModerationBody(Str(status), Undefined, Undefined)

ReportQueries ==
  {[status |-> s, includeResolved |-> i, page |-> Undefined, limit |-> Undefined] :
     s \in {Undefined, Str(<<"pending">>), Str(<<"resolved">>), Str(<<"dismissed">>)},
     i \in {Undefined, Str(<<"true">>)}}

NoticeQueries ==
  {[status |-> s, includeCompleted |-> i, page |-> Undefined, limit |-> Undefined] :
     s \in {Undefined, Str(<<"pending">>), Str(<<"completed">>), Str(<<"rejected">>)},
     i \in {Undefined, Str(<<"true">>)}}

NextLists ==
  \/ CreateGame(AdminHeader, TitleOnly, "u1")
  \/ \E u \in UuidPool : SubmitReport(ReportBody(Num(1)), u)
  \/ \E u \in UuidPool : SubmitNotice(NoticeBody(Num(1)), u)
  \/ \E id \in 1..MaxReports, s \in {<<"resolved">>, <<"dismissed">>} : UpdateReport(AdminHeader, id, StatusOnly(s))
  \/ \E id \in 1..MaxNotices, s \in {<<"completed">>, <<"rejected">>} : UpdateNotice(AdminHeader, id, StatusOnly(s))
  \/ \E q \in ReportQueries : ListReports(AdminHeader, q)
  \/ \E q \in NoticeQueries : ListNotices(AdminHeader, q)

SpecLists == Init /\ [][NextLists]_vars

\* no status filter and the default flag
DefaultReportQuery(q) == ~Truthy(q.status) /\ q.includeResolved # Str(<<"true">>)
DefaultNoticeQuery(q) == ~Truthy(q.status) /\ q.includeCompleted # Str(<<"true">>)

\* the ids of the rows a list answered
Listed(data) == {data.rows[i].id : i \in DOMAIN data.rows}

InStatus(table, statuses) == {id \in DOMAIN table : table[id].status.s \in statuses}

\* C4 (as the code has it): with no status filter and the default flag the
\* list of reports is exactly the reports that are neither resolved nor
\* dismissed, and the list of notices exactly the notices that are not
\* completed (a rejected notice is listed); with a status as the filter,
\* terminal or not, the list is exactly the items in that status.
DefaultListsHideTerminal ==
  [][ /\ (res'.op = "listReports" /\ res'.status = 200)
           => /\ DefaultReportQuery(res'.req)
                   => Listed(res'.data) = DOMAIN game_reports \ InStatus(game_reports, {<<"resolved">>, <<"dismissed">>})
              /\ Truthy(res'.req.status)
                   => Listed(res'.data) = InStatus(game_reports, {res'.req.status.s})
      /\ (res'.op = "listNotices" /\ res'.status = 200)
           => /\ DefaultNoticeQuery(res'.req)
                   => Listed(res'.data) = DOMAIN dmca_notices \ InStatus(dmca_notices, {<<"completed">>})
              /\ Truthy(res'.req.status)
                   => Listed(res'.data) = InStatus(dmca_notices, {res'.req.status.s})
    ]_vars

\* C4 as stated: the default list of notices holds no completed and no
\* rejected notice (and the default list of reports no resolved and no
\* dismissed report).
DefaultListsHideRejected ==
  [][ /\ (res'.op = "listReports" /\ res'.status = 200 /\ DefaultReportQuery(res'.req))
           => Listed(res'.data) \cap InStatus(game_reports, {<<"resolved">>, <<"dismissed">>}) = {}
      /\ (res'.op = "listNotices" /\ res'.status = 200 /\ DefaultNoticeQuery(res'.req))
           => Listed(res'.data) \cap InStatus(dmca_notices, {<<"completed">>, <<"rejected">>}) = {}
    ]_vars

\* The default list of notices was asked for while one notice was completed
\* and one rejected, and a resolved report had been listed by its status.
DefaultListWitness ==
  /\ res.op = "listNotices" /\ res.status = 200 /\ DefaultNoticeQuery(res.req)
  /\ InStatus(dmca_notices, {<<"completed">>}) # {}
  /\ InStatus(dmca_notices, {<<"rejected">>}) # {}
  /\ Listed(res.data) = InStatus(dmca_notices, {<<"rejected">>})
  /\ InStatus(game_reports, {<<"resolved">>}) # {}


\* ------------------------------------------------------- the public tracking
Secret == Str(<<"secret">>)
PublicNote == Str(<<"note">>)

ReportUpdates == {ModerationBody(Str(<<"resolved">>), Secret, PublicNote),
                  ModerationBody(Undefined, Str(<<"internal">>), Undefined)}
NoticeUpdates == {ModerationBody(Str(<<"completed">>), Secret, PublicNote),
                  ModerationBody(Undefined, Str(<<"internal">>), Undefined)}

TrackingIds == {Uuid(u) : u \in UuidPool \cup {"zz"}}

NextTrack ==
  \/ CreateGame(AdminHeader, TitleOnly, "u1")
  \/ \E u \in UuidPool : SubmitReport(ReportBody(Num(1)), u)
  \/ \E u \in UuidPool : SubmitNotice(NoticeBody(Num(1)), u)
  \/ \E id \in 1..MaxReports, b \in ReportUpdates : UpdateReport(AdminHeader, id, b)
  \/ \E id \in 1..MaxNotices, b \in NoticeUpdates : UpdateNotice(AdminHeader, id, b)
  \/ \E tid \in TrackingIds : TrackReport(tid)
  \/ \E tid \in TrackingIds : TrackNotice(tid)

SpecTrack == Init /\ [][NextTrack]_vars

TrackingIdsOf(table) == {table[id].tracking_id : id \in DOMAIN table}

RowsTracked(table, tid) == {id \in DOMAIN table : table[id].tracking_id = tid}

\* what a track request must answer from `table`
TrackAnswers(table, r) ==
  LET rows == RowsTracked(table, r.req.trackingId)
  IN IF rows = {} THEN r.status = 404
     ELSE /\ r.status = 200
          /\ \A id \in rows : r.data.status = table[id].status /\ r.data.public_note = table[id].public_note

\* C5: a successful submission answers a tracking identifier that no row of
\* its table held before and that its new row holds, no two rows of a table
\* share a tracking identifier, and the track endpoint answers, for an
\* identifier a row holds, the status and public note that row holds now,
\* whatever the administrator has updated.
TrackingIdUniqueAndCurrent ==
  [][ /\ (res'.op = "submitReport" /\ res'.status = 201)
           => /\ res'.data.tracking_id \notin TrackingIdsOf(game_reports)
              /\ RowsTracked(game_reports', res'.data.tracking_id) = {res'.data.id}
      /\ (res'.op = "submitNotice" /\ res'.status = 201)
           => /\ res'.data.tracking_id \notin TrackingIdsOf(dmca_notices)
              /\ RowsTracked(dmca_notices', res'.data.tracking_id) = {res'.data.id}
      /\ Cardinality(TrackingIdsOf(game_reports')) = Cardinality(DOMAIN game_reports')
      /\ Cardinality(TrackingIdsOf(dmca_notices')) = Cardinality(DOMAIN dmca_notices')
      /\ res'.op = "trackReport" => TrackAnswers(game_reports', res')
      /\ res'.op = "trackNotice" => TrackAnswers(dmca_notices', res')
    ]_vars

\* The second of two reports was tracked after the administrator had
\* resolved it with a public note.
TrackCurrentWitness ==
  /\ res.op = "trackReport" /\ res.status = 200
  /\ Cardinality(DOMAIN game_reports) = 2
  /\ RowsTracked(game_reports, res.req.trackingId) = {2}
  /\ res.data.status = Str(<<"resolved">>) /\ res.data.public_note = PublicNote

\* The tables that differ from `table` only in the admin notes, e-mail and
\* description of its rows.
Alterations(table) ==
  {[id \in DOMAIN table |->
      [table[id] EXCEPT !.admin_notes = f[id].admin_notes, !.email = f[id].email,
                        !.description = f[id].description]] :
     f \in [DOMAIN table -> [admin_notes : {Null, Secret}, email : {GoodEmail, BadEmail},
                             description : {Str(<<"d">>), Secret}]]}

TrackFields == {"type", "tracking_id", "status", "public_note", "submitted_at", "updated_at"}

\* C6: what the track endpoint answers is the same for every table that
\* differs from the stored one only in admin notes, e-mail or description,
\* and an answer found has exactly the fields type, tracking_id, status,
\* public_note, submitted_at and updated_at, taken from the row's
\* tracking_id, status, public_note, created_at and updated_at.
TrackAnswerIgnoresPrivateFields ==
  [][ res'.op \in {"trackReport", "trackNotice"}
        => LET kind == IF res'.op = "trackReport" THEN "report" ELSE "dmca"
               table == IF res'.op = "trackReport" THEN game_reports' ELSE dmca_notices'
           IN /\ \A altered \in Alterations(table) :
                   TrackIn(kind, altered, res'.req.trackingId) = [status |-> res'.status, data |-> res'.data]
              /\ res'.status = 200
                   => /\ DOMAIN res'.data = TrackFields
                      /\ \A id \in RowsTracked(table, res'.req.trackingId) :
                           /\ res'.data.tracking_id = table[id].tracking_id
                           /\ res'.data.status = table[id].status
                           /\ res'.data.public_note = table[id].public_note
                           /\ res'.data.submitted_at = table[id].created_at
                           /\ res'.data.updated_at = table[id].updated_at
    ]_vars

\* A notice that holds admin notes and a public note was tracked.
TrackPrivateWitness ==
  /\ res.op = "trackNotice" /\ res.status = 200
  /\ \E id \in RowsTracked(dmca_notices, res.req.trackingId) :
       dmca_notices[id].admin_notes = Secret /\ dmca_notices[id].public_note = PublicNote


\* -------------------------------------------------- the authentication gate
\* The times a login can have happened by now.
IssueTimes == {t \in {k * TickHours : k \in 0..MaxTicks} : t <= now}

\* The Authorization headers a request may carry: none, a scheme without a
\* token, an empty token, a token that is no JWT, a token signed with
\* another key, and the tokens login has issued so far.
AuthHeaders ==
  {NoHeader, SchemeOnly, Bearer(EmptyToken), Bearer(MalformedToken),
   Bearer(Sign(1, AdminName, "another-key", now))}
    \cup {Bearer(Sign(1, AdminName, JWT_SECRET, t)) : t \in IssueTimes}

\* The headers tried on every guarded route: no credential, the token of
\* the first login (expired once a day has passed) and a token just issued.
GateHeaders ==
  {NoHeader, Bearer(Sign(1, AdminName, JWT_SECRET, 0)), Bearer(Sign(1, AdminName, JWT_SECRET, now))}

Credentials == {Str(AdminName), Str(<<"root">>), Undefined}

OneUpdate == [id |-> 1, body |-> [title |-> Str(<<"T2">>)], genres |-> NoList, screenshots |-> NoList]
DefaultReportList == [status |-> Undefined, includeResolved |-> Undefined, page |-> Undefined, limit |-> Undefined]
DefaultNoticeList == [status |-> Undefined, includeCompleted |-> Undefined, page |-> Undefined, limit |-> Undefined]
SteamOk == [kind |-> "ok", data |-> SteamData(Str(<<"S">>))]
PngFile == [present |-> TRUE, mimetype |-> "image/png", ext |-> ".png"]

\* the rows and files made so far
Made == gameSeq + genreSeq + reportSeq + noticeSeq + Cardinality(files)
MaxMade == 2

NextAuth ==
  \/ Tick
  \/ \E username \in Credentials, password \in Credentials : Login(username, password)
  \/ \E h \in AuthHeaders : Me(h)
  \/ \E h \in GateHeaders : Made < MaxMade /\ CreateGame(h, TitleOnly, "u1")
  \/ \E h \in GateHeaders : UpdateGame(h, OneUpdate)
  \/ \E h \in GateHeaders : DeleteGame(h, 1)
  \/ \E h \in GateHeaders : Made < MaxMade /\ PostGenre(h, Str(<<"A", "c">>))
  \/ \E h \in GateHeaders : Made < MaxMade /\ EnsureGenres(h, << << <<"A", "c">> >> >>)
  \/ \E h \in GateHeaders : DeleteGenre(h, 1)
  \/ \E h \in GateHeaders : ListReports(h, DefaultReportList)
  \/ \E h \in GateHeaders : GetReport(h, 1)
  \/ \E h \in GateHeaders : ReportStats(h)
  \/ \E h \in GateHeaders : UpdateReport(h, 1, ModerationBody(Str(<<"resolved">>), Secret, PublicNote))
  \/ \E h \in GateHeaders : DeleteReport(h, 1)
  \/ \E h \in GateHeaders : ListNotices(h, DefaultNoticeList)
  \/ \E h \in GateHeaders : GetNotice(h, 1)
  \/ \E h \in GateHeaders : NoticeStats(h)
  \/ \E h \in GateHeaders : UpdateNotice(h, 1, ModerationBody(Str(<<"completed">>), Secret, PublicNote))
  \/ \E h \in GateHeaders : DeleteNotice(h, 1)
  \/ \E h \in GateHeaders : Made < MaxMade /\ SteamFetch(h, ImportBody, SteamOk)
  \/ \E h \in GateHeaders : Made < MaxMade /\ SteamImport(h, ImportBody, SteamOk, "u1")
  \/ \E h \in GateHeaders : Made < MaxMade /\ Upload(h, PngFile, "u1")
  \/ \E h \in GateHeaders : AnalyticsStats(h, UTC)
  \/ Made < MaxMade /\ SubmitReport(ReportBody(Num(1)), "u1")
  \/ Made < MaxMade /\ SubmitNotice(NoticeBody(Num(1)), "u1")

SpecAuth == Init /\ [][NextAuth]_vars


\* The routes mounted behind authenticateToken.
GuardedOps ==
  {"createGame", "updateGame", "deleteGame", "postGenre", "ensureGenres", "deleteGenre",
   "listReports", "getReport", "reportStats", "updateReport", "deleteReport",
   "listNotices", "getNotice", "noticeStats", "updateNotice", "deleteNotice",
   "steamFetch", "steamImport", "upload", "analyticsStats"}

\* a token signed by this server
WellSigned(token) == token.kind = "jwt" /\ token.key = JWT_SECRET
\* hours since the token was signed
Age(token) == now - (token.exp - ExpiresInHours)
\* the header carries a token: "<scheme> <token>" with a non-empty token
CredentialPresent(hdr) == hdr.parts = 2 /\ hdr.token.kind \notin {"none", "empty"}
\* a valid unexpired token
ValidUnexpired(hdr) ==
  CredentialPresent(hdr) /\ WellSigned(hdr.token) /\ Age(hdr.token) < ExpiresInHours

\* the moderation fields of a report or notice
Moderation(row) == <<row.status, row.admin_notes, row.public_note>>

\* the request answered in this step was refused with the given status and
\* nothing was stored
Refused(status) ==
  res'.status = status /\ res'.data = ErrorBody /\ UNCHANGED <<dbVars, files>>

\* C7: a request to a guarded route that carries no valid unexpired token
\* changes no table and no file and is answered 401 or 403 with an error
\* body only; the status, admin_notes and public_note of a report or notice
\* that stays stored change only in a PUT of that row carrying a valid
\* unexpired token.
UnauthenticatedChangesNothing ==
  [][/\ (now' = now /\ res'.op \in GuardedOps /\ ~ValidUnexpired(res'.hdr))
          => (Refused(401) \/ Refused(403))
     /\ \A id \in DOMAIN game_reports \cap DOMAIN game_reports' :
          (Moderation(game_reports'[id]) # Moderation(game_reports[id]))
            => (res'.op = "updateReport" /\ res'.req.id = id /\ ValidUnexpired(res'.hdr))
     /\ \A id \in DOMAIN dmca_notices \cap DOMAIN dmca_notices' :
          (Moderation(dmca_notices'[id]) # Moderation(dmca_notices[id]))
            => (res'.op = "updateNotice" /\ res'.req.id = id /\ ValidUnexpired(res'.hdr))]_vars

\* an update of a pending report with an expired token has been refused
UnauthenticatedUpdateWitness ==
  /\ res.op = "updateReport" /\ res.status = 403
  /\ WellSigned(res.hdr.token) /\ Age(res.hdr.token) >= ExpiresInHours
  /\ 1 \in DOMAIN game_reports /\ game_reports[1].status = Pending
  /\ game_reports[1].admin_notes = Null

\* The answer of the gate to the request of this step; stale says whether
\* the token of the request counts as too old.
GateContract(stale) ==
  (now' = now /\ res'.op \in GuardedOps \cup {"me"}) =>
    LET hdr == res'.hdr
    IN IF ~CredentialPresent(hdr) THEN Refused(401)
       ELSE IF ~WellSigned(hdr.token) \/ stale THEN Refused(403)
       ELSE /\ res'.status \notin {401, 403}
            /\ (res'.op = "me") =>
                 (res'.data = [userId |-> hdr.token.userId, username |-> hdr.token.username])

\* login answers 200 with a token binding the account's id and name exactly
\* when the username exists and the password matches its stored hash
LoginContract ==
  (now' = now /\ res'.op = "login") =>
    LET req == res'.req
        matching == {id \in DOMAIN admin_users :
                       /\ Truthy(req.username) /\ Truthy(req.password)
                       /\ admin_users[id].username = req.username.s
                       /\ admin_users[id].password_hash = hashSync(req.password.s)}
    IN IF matching = {}
       THEN res'.status \in {400, 401} /\ res'.data = ErrorBody
       ELSE /\ res'.status = 200
            /\ \E id \in matching :
                 res'.data.token = Sign(id, admin_users[id].username, JWT_SECRET, now)

\* C8 (amended): the gate answers 401 and stores nothing when the header
\* carries no token, answers 403 and stores nothing when the token is
\* malformed, signed with another key, or 24 hours old or older, and
\* otherwise runs the handler with the user id and username of the token;
\* login issues a token only for an existing username with its password.
GateAnswers ==
  [][GateContract(Age(res'.hdr.token) >= ExpiresInHours) /\ LoginContract]_vars

\* C8 as stated: only a token more than 24 hours old is refused as expired.
GateAnswersOlderThanADay ==
  [][GateContract(Age(res'.hdr.token) > ExpiresInHours) /\ LoginContract]_vars

\* a token of this server exactly 24 hours old has been refused
GateExpiryWitness ==
  /\ res.op = "me" /\ res.status = 403
  /\ WellSigned(res.hdr.token) /\ Age(res.hdr.token) = ExpiresInHours


\* ------------------------------------------------- requests: field updates
\* The values a body gives a field: null, the empty string, a new value.
ProvidedValues == {Null, EmptyStr, Str(<<"n">>)}

\* A game created with every field set.
FullBody == [f \in UpdatableFields |-> IF f = "size_bytes" THEN Num(1) ELSE Str(<<"o">>)]
FullCreate == [body |-> FullBody, genres |-> NoList, screenshots |-> NoList]

\* Bodies naming no field, one field, or the title and one more field.
FieldBodies ==
  {NoBody} \cup {f :> v : f \in UpdatableFields, v \in ProvidedValues}
    \cup {("title" :> v) @@ (f :> w) :
            v \in {EmptyStr, Str(<<"n">>)}, f \in {"description", "size_bytes"}, w \in {Null, Str(<<"n">>)}}

FieldUpdates ==
  {[id |-> 1, body |-> b, genres |-> NoList, screenshots |-> NoList] : b \in FieldBodies}

\* the updatable fields of game 1 that no longer hold the value it was
\* created with
Edited ==
  IF 1 \notin DOMAIN games THEN {}
  ELSE {f \in UpdatableFields :
          games[1][f] # NewGameRow(FullBody, Uuid("u1"))[f]}
MaxEdited == 2

NextUpdate ==
  \/ CreateGame(AdminHeader, FullCreate, "u1")
  \/ \E req \in FieldUpdates : Cardinality(Edited) < MaxEdited /\ UpdateGame(AdminHeader, req)

SpecUpdate == Init /\ [][NextUpdate]_vars

\* the row of an answered update holds, for every updatable field, what
\* `written` says the update writes there
UpdateWrites(written(_, _, _)) ==
  (res'.op = "updateGame" /\ res'.status = 200) =>
    \A f \in UpdatableFields :
      games'[res'.req.id][f] = written(f, Field(res'.req.body, f), games[res'.req.id][f])

\* omitted keeps, provided overwrites
Overwrite(f, provided, stored) == IF provided = Undefined THEN stored ELSE provided
\* the same, but a title is overwritten only by a non-empty string
OverwriteButTitle(f, provided, stored) ==
  IF f = "title"
  THEN (IF provided.tag = "str" /\ provided.s # <<>> THEN provided ELSE stored)
  ELSE Overwrite(f, provided, stored)

\* C9 (amended): for each updatable field other than title, update-game
\* keeps the stored value when the body omits the field and stores the
\* provided value when it is present, null and the empty string included;
\* the title is replaced only by a provided non-empty title and is kept
\* when the body omits it or provides null or the empty string.
UpdateKeepsOmittedWritesProvided == [][UpdateWrites(OverwriteButTitle)]_vars

\* C9 as stated: every updatable field, the title included, is overwritten
\* by whatever the body provides.
UpdateWritesEveryProvided == [][UpdateWrites(Overwrite)]_vars

\* an update that provided null for the description of a game created with
\* one, and nothing for its version, has stored null and kept the version
UpdateProvidedNullWitness ==
  /\ res.op = "updateGame" /\ res.status = 200
  /\ DOMAIN res.req.body = {"description"} /\ res.req.body["description"] = Null
  /\ games[1]["description"] = Null
  /\ games[1]["version"] = Str(<<"o">>)


\* ------------------------------------------------------- observed requests
\* a rating of 5.9 for an existing game has been answered 201 and stored as 5
FractionalRatingStored ==
  /\ res.op = "submitRating" /\ res.status = 201
  /\ res.req.rating = Dec(59)
  /\ \E id \in DOMAIN game_ratings : game_ratings[id].rating = Num(5)

\* a complete notice for a game that does not exist has been answered 400
NoticeForMissingGameAnswered ==
  /\ res.op = "submitNotice" /\ res.status = 400
  /\ ~MissingField(res.req) /\ emailRegexTest(res.req.email)
  /\ NoSuchGame(res.req)


\* ------------------------------------------- requests: covers and screenshots
\* Two uploaded images and one image kept elsewhere.
PathA == Str(<<"/uploads/", "a", ".png">>)
PathB == Str(<<"/uploads/", "b", ".png">>)
External == Str(<<"https://cdn/", "c", ".png">>)
Paths == {PathA, PathB, External}

\* screenshot lists of up to two paths, repetitions included
ShotLists == {<<>>} \cup {<<p>> : p \in Paths} \cup {<<p, q>> : p \in Paths, q \in Paths}

OneGenre == << << <<"A", "c">> >> >>

ShotCreates ==
  {[body |-> b, genres |-> OneGenre, screenshots |-> <<P>>] :
     b \in {[title |-> Str(<<"T">>)], [title |-> Str(<<"T">>), cover_image |-> PathA]},
     P \in ShotLists}

ShotUpdates ==
  {[id |-> 1, body |-> b, genres |-> NoList, screenshots |-> s] :
     b \in {NoBody, [cover_image |-> PathB]},
     s \in {NoList} \cup {<<P>> : P \in ShotLists}}

NextShots ==
  \/ \E u \in {"a", "b"} : Upload(AdminHeader, PngFile, u)
  \/ \E req \in ShotCreates : GameWithSlug(Uuid("u1")) = {} /\ CreateGame(AdminHeader, req, "u1")
  \/ \E req \in ShotUpdates : UpdateGame(AdminHeader, req)
  \/ GetGame(Uuid("u1"))
  \/ \E id \in 1..MaxGames : DeleteGame(AdminHeader, id)

SpecShots == Init /\ [][NextShots]_vars

\* a path below /uploads/, and the file it names
IsLocal(path) == path.tag = "str" /\ path.s # <<>> /\ Head(path.s) = "/uploads/"
LocalName(path) == Tail(path.s)
FilesOf(paths) == {LocalName(p) : p \in {q \in paths : IsLocal(q)}}

ShotPaths(table, gameId) == {table[s].image_path : s \in ShotsOf(table, gameId)}

\* C11: deleting an existing game with N screenshot rows hands N+1 paths to
\* the file deletion (the cover and every screenshot), after which none of
\* their files exists, no other file is gone, the game row is gone and no
\* screenshot row and no genre link names the game; deleting an id that
\* names no game is answered 404 and changes no row and no file.
DeleteGameRemovesFilesAndRows ==
  [][(res'.op = "deleteGame" /\ res'.status \notin {401, 403}) =>
       LET id == res'.req.id
       IN IF id \in DOMAIN games
          THEN /\ res'.status = 200
               /\ Len(deleteAttempts(id)) = Cardinality(ShotsOf(game_screenshots, id)) + 1
               /\ files' = files \ FilesOf({games[id]["cover_image"]} \cup ShotPaths(game_screenshots, id))
               /\ id \notin DOMAIN games'
               /\ ShotsOf(game_screenshots', id) = {}
               /\ \A l \in game_genres' : l[1] # id
          ELSE /\ res'.status = 404
               /\ UNCHANGED <<dbVars, files>>]_vars

\* the one game, created with a cover and two screenshots in three uploaded
\* and linked rows, has been deleted and no file is left
DeleteGameWitness ==
  /\ res.op = "deleteGame" /\ res.status = 200
  /\ gameSeq = 1 /\ shotSeq = 2 /\ genreSeq = 1
  /\ games = NoRows /\ game_screenshots = NoRows /\ game_genres = {}
  /\ files = {}


\* C12: after a create or an update that carried a screenshot list P, the
\* game's screenshots read back are exactly P in order; the file of every
\* path attached before and absent from P is gone, and the file of every
\* path attached before and kept in P is still there; get-by-slug answers
\* the screenshots so stored.
ScreenshotsFollowList ==
  [][/\ (res'.op \in {"createGame", "updateGame"} /\ res'.status \in {200, 201}
           /\ res'.req.screenshots # NoList) =>
          LET id == res'.data.id
              P == res'.req.screenshots[1]
          IN /\ ScreenshotsIn(game_screenshots', id) = P
             /\ res'.data.screenshots = P
             /\ \A p \in ShotPaths(game_screenshots, id) :
                  IsLocal(p) =>
                    IF p \in Range(P)
                    THEN (LocalName(p) \in files => LocalName(p) \in files')
                    ELSE LocalName(p) \notin files'
     /\ (res'.op = "getGame" /\ res'.status = 200) =>
          (res'.data.screenshots = ScreenshotsIn(game_screenshots', res'.data.id))]_vars


\* -------------------------------------------------- requests: rating stats
\* GET /api/ratings/:gameId (public)
GetRatingStats(gameId) ==
  /\ UNCHANGED <<dbVars, files, now>>
  /\ IF gameId \notin DOMAIN games
     THEN Reply("getRatingStats", NoHeader, [gameId |-> gameId], 404, ErrorBody)
     ELSE Reply("getRatingStats", NoHeader, [gameId |-> gameId], 200, getGameRatingStats(gameId))

\* The database after two games were created and up to MaxRated ratings
\* were submitted for the first.
MaxRated == 4
RatingLists == UNION {[1..n -> 1..5] : n \in 0..MaxRated}

InitStats ==
  /\ now = 0
  /\ games = [id \in 1..2 |-> NewGameRow(TitleOnly.body, Uuid(IF id = 1 THEN "u1" ELSE "u2"))]
  /\ gameSeq = 2
  /\ genres = NoRows /\ genreSeq = 0
  /\ game_genres = {}
  /\ game_screenshots = NoRows /\ shotSeq = 0
  /\ \E rs \in RatingLists :
       /\ game_ratings = [i \in 1..Len(rs) |-> [game_id |-> Num(1), rating |-> Num(rs[i]), created_at |-> 0]]
       /\ ratingSeq = Len(rs)
  /\ analytics = NoRows /\ eventSeq = 0
  /\ game_reports = NoRows /\ reportSeq = 0
  /\ dmca_notices = NoRows /\ noticeSeq = 0
  /\ admin_users = (1 :> [username |-> AdminName, password_hash |-> hashSync(AdminName)])
  /\ Installed
  /\ inflight = NoneInFlight
  /\ files = {}
  /\ res = [op |-> "none", hdr |-> NoHeader, req |-> [none |-> TRUE], status |-> 0, data |-> [none |-> TRUE]]

NextStats ==
  \/ \E gameId \in {1, 2, 9} : GetRatingStats(gameId)
  \/ \E r \in 1..5 : SubmitRating([game_id |-> Num(1), rating |-> Num(r)])

SpecStats == InitStats /\ [][NextStats]_vars

\* the rating rows of a game with rating k
Rated(gameId, k) ==
  {r \in DOMAIN game_ratings : game_ratings[r].game_id = Num(gameId) /\ game_ratings[r].rating = Num(k)}
Votes(gameId, k) == Cardinality(Rated(gameId, k))

\* the stats answered by the last request, and the game they are about
StatsAnswered ==
  \/ res.op = "getRatingStats" /\ res.status = 200
  \/ res.op = "submitRating" /\ res.status = 201
StatsGame == IF res.op = "getRatingStats" THEN res.req.gameId ELSE IdOf(res.req.game_id)
Stats == IF res.op = "getRatingStats" THEN res.data ELSE res.data.stats

\* C13: the stats answered for a game hold the number of its rating rows,
\* their mean rounded to one decimal place (halves upwards; 0 without
\* ratings), and a distribution over exactly the keys 1..5 that counts the
\* rows of each rating, so that its values sum to the count.
RatingStatsAreExact ==
  StatsAnswered =>
    LET g == StatsGame
        count == Cardinality({r \in DOMAIN game_ratings : game_ratings[r].game_id = Num(g)})
        sum == Votes(g, 1) + 2 * Votes(g, 2) + 3 * Votes(g, 3) + 4 * Votes(g, 4) + 5 * Votes(g, 5)
        a == Stats.average10
    IN /\ Stats.count = count
       /\ DOMAIN Stats.distribution = 1..5
       /\ \A k \in 1..5 : Stats.distribution[k] = Votes(g, k)
       /\ Stats.distribution[1] + Stats.distribution[2] + Stats.distribution[3]
            + Stats.distribution[4] + Stats.distribution[5] = Stats.count
       /\ IF count = 0 THEN a = 0
          ELSE 20 * sum - count < 2 * count * a /\ 2 * count * a <= 20 * sum + count

\* the ratings 5, 5, 5, 1 have been answered with average 4.0, count 4 and
\* the distribution 1:1, 2:0, 3:0, 4:0, 5:3
RatingStatsWitness ==
  /\ res.op = "getRatingStats" /\ res.status = 200
  /\ Votes(1, 5) = 3 /\ Votes(1, 1) = 1
  /\ res.data = [average10 |-> 40, count |-> 4, distribution |-> <<1, 0, 0, 0, 3>>]


\* ------------------------------------------------- requests: moderation
\* Submissions that also carry the fields only a moderator sets.
Presuming(body) ==
  {body, body @@ [status |-> Str(<<"resolved">>), admin_notes |-> Secret, public_note |-> PublicNote]}

\* Update bodies: nothing, one field (null, empty, a value; for the status
\* also a value of the other kind and an unknown one), and all three.
ModerationBodies(ownStatus, otherStatus) ==
  {ModerationBody(Undefined, Undefined, Undefined),
   ModerationBody(Str(ownStatus), Secret, PublicNote),
   ModerationBody(Str(<<"bogus">>), Secret, PublicNote)}
    \cup {ModerationBody(s, Undefined, Undefined) :
            s \in {Null, EmptyStr, Str(ownStatus), Pending, Str(otherStatus), Str(<<"bogus">>)}}
    \cup {ModerationBody(Undefined, n, Undefined) : n \in {Null, EmptyStr, Secret}}
    \cup {ModerationBody(Undefined, Undefined, n) : n \in {Null, EmptyStr, PublicNote}}

\* a token issued at the time of the request
FreshHeader == Bearer(Sign(1, AdminName, JWT_SECRET, now))

MaxSubmitted == 1

NextModerate ==
  \/ Tick
  \/ CreateGame(AdminHeader, TitleOnly, "u1")
  \/ \E body \in Presuming(ReportBody(Num(1))) :
       reportSeq + noticeSeq < MaxSubmitted /\ SubmitReport(body, "u1")
  \/ \E body \in Presuming(NoticeBody(Num(1))) :
       reportSeq + noticeSeq < MaxSubmitted /\ SubmitNotice(body, "u1")
  \/ \E body \in ModerationBodies(<<"resolved">>, <<"reviewing">>) : UpdateReport(FreshHeader, 1, body)
  \/ \E body \in ModerationBodies(<<"completed">>, <<"reviewed">>) : UpdateNotice(FreshHeader, 1, body)

SpecModerate == Init /\ [][NextModerate]_vars

ModerationFields == {"status", "admin_notes", "public_note"}

\* An answered update of row `id` of `table` (now `after`) by `body`.
UpdateFrame(table, after, id, body) ==
  /\ DOMAIN after = DOMAIN table
  /\ \A other \in DOMAIN table \ {id} : after[other] = table[other]
  /\ \A f \in ModerationFields :
       /\ (body[f] = Undefined) => (after[id][f] = table[id][f])
       /\ (after[id][f] # table[id][f]) => (after[id][f] = body[f])
  /\ after[id].updated_at = Num(now)
  /\ (table[id].updated_at # Null) => (table[id].updated_at.n <= after[id].updated_at.n)
  /\ \A f \in DOMAIN table[id] \ (ModerationFields \cup {"updated_at"}) : after[id][f] = table[id][f]

\* C14: an answered update of a report or notice changes, of status,
\* admin_notes and public_note, only fields the body provides and only to
\* the value provided, keeps every omitted one, sets updated_at to the time
\* of the update, not earlier than the previous updated_at, and leaves
\* tracking_id, game_id, the submitter's fields and created_at, and every
\* other row, as they were.
UpdateChangesOnlyProvided ==
  [][/\ (now' = now /\ res'.op = "updateReport" /\ res'.status = 200)
          => UpdateFrame(game_reports, game_reports', res'.req.id, res'.req.body)
     /\ (now' = now /\ res'.op = "updateNotice" /\ res'.status = 200)
          => UpdateFrame(dmca_notices, dmca_notices', res'.req.id, res'.req.body)]_vars

\* a notice submitted at hour 0 and given notes at hour 12 has had its
\* status alone updated at hour 24
UpdateFrameWitness ==
  /\ res.op = "updateNotice" /\ res.status = 200
  /\ res.req.body = ModerationBody(Str(<<"completed">>), Undefined, Undefined)
  /\ dmca_notices[1].status = Str(<<"completed">>)
  /\ dmca_notices[1].admin_notes = Secret
  /\ dmca_notices[1].public_note = PublicNote
  /\ dmca_notices[1].created_at = Num(0)
  /\ dmca_notices[1].updated_at = Num(2 * TickHours)


\* the rows of `after` hold statuses of `statuses`, and those that `table`
\* did not hold are pending
StatusesKept(table, after, statuses) ==
  /\ \A id \in DOMAIN after : after[id].status.tag = "str" /\ after[id].status.s \in statuses
  /\ \A id \in DOMAIN after \ DOMAIN table : after[id].status = Pending

\* an update that reached the handler for an existing row and whose status
\* is `outside` is answered 400 and leaves the table as it was
BadStatusRefused(op, table, after, outside) ==
  (now' = now /\ res'.op = op /\ res'.status \notin {401, 403, 404} /\ outside)
    => (res'.status = 400 /\ after = table)

\* a status that is a string outside `statuses`
StringOutside(status, statuses) == status.tag = "str" /\ status.s \notin statuses
\* the same, the empty string excepted
NamedOutside(status, statuses) == StringOutside(status, statuses) /\ status.s # <<>>

NextRows ==
  \/ \E u \in UuidPool : CreateGame(AdminHeader, TitleOnly, u)
  \/ \E id \in 1..MaxGames : DeleteGame(AdminHeader, id)
  \/ \E id \in 1..MaxGames : SubmitRating([game_id |-> Num(id), rating |-> Num(3)])
  \/ \E id \in 1..MaxGames : RecordView(id)
  \/ \E id \in 1..MaxGames : RecordDownload(id)
  \/ \E id \in 1..MaxGames : GetRatingStats(id)

SpecRows == Init /\ [][NextRows]_vars

\* no row of `table` is gone or altered in `after`
OnlyGrows(table, after) == \A r \in DOMAIN table : r \in DOMAIN after /\ after[r] = table[r]

\* C16 as stated: over every operation the rating rows and the analytics
\* rows only accumulate: none is removed and none is altered.
RowsOnlyAccumulate ==
  [][OnlyGrows(game_ratings, game_ratings') /\ OnlyGrows(analytics, analytics')]_vars

\* the rows of `table` kept in `after` are unaltered, and one is gone only
\* when the step is an answered deletion of the game it belongs to
GoneWithGameOnly(table, after) ==
  \A r \in DOMAIN table :
    IF r \in DOMAIN after THEN after[r] = table[r]
    ELSE /\ res'.op = "deleteGame" /\ res'.status = 200
         /\ table[r].game_id = Num(res'.req.id)

\* C16 (amended): no operation alters a rating row or an analytics row, and
\* a row is removed only by the deletion of its game, which removes all the
\* rating and analytics rows of that game; under every other operation the
\* rows only accumulate.
RowsGoOnlyWithTheirGame ==
  [][/\ GoneWithGameOnly(game_ratings, game_ratings')
     /\ GoneWithGameOnly(analytics, analytics')
     /\ (res'.op = "deleteGame" /\ res'.status = 200) =>
          /\ \A r \in DOMAIN game_ratings' : game_ratings'[r].game_id # Num(res'.req.id)
          /\ \A e \in DOMAIN analytics' : analytics'[e].game_id # Num(res'.req.id)]_vars

\* the first game has been deleted with its rating and its event, and the
\* rating and the event of the second game are still stored
RowsGoneWitness ==
  /\ res.op = "deleteGame" /\ res.status = 200 /\ res.req.id = 1
  /\ ratingSeq = 2 /\ DOMAIN game_ratings = {2} /\ game_ratings[2].game_id = Num(2)
  /\ eventSeq = 2 /\ DOMAIN analytics = {2} /\ analytics[2].game_id = Num(2)


\* ------------------------------------------------- the dashboard's series
\* A zone five hours behind UTC all year, and one that went from UTC + 1 back
\* to UTC at 01:00 UTC five days before the model's first instant.
FixedBehind == [before |-> 0 - 5, after |-> 0 - 5, switch |-> 0]
FellBack == [before |-> 1, after |-> 0, switch |-> 1 - 5 * 24]
Zones == {UTC, FixedBehind, FellBack}

NextDaily ==
  \/ Tick
  \/ CreateGame(FreshHeader, TitleOnly, "u1")
  \/ RecordView(1)
  \/ RecordDownload(1)
  \/ \E zone \in Zones : AnalyticsStats(FreshHeader, zone)

SpecDaily == Init /\ [][NextDaily]_vars

Recorded(eventType, date) ==
  Cardinality({e \in DOMAIN analytics : /\ analytics[e].event_type = eventType
                                        /\ DateOf(analytics[e].created_at) = date})

SeriesExact(series, today) ==
  /\ Len(series) = 30
  /\ \A k \in 1..30 : /\ series[k].date = today - 30 + k
                      /\ series[k].views = Recorded("view", series[k].date)
                      /\ series[k].downloads = Recorded("download", series[k].date)

\* C17: the series answered by the dashboard has exactly 30 entries, the
\* dates of the 30 days ending today in ascending order without repeat or
\* gap, each with the numbers of views and downloads recorded on its date
\* (0 where none were recorded).
DailySeriesIsExact ==
  [][(/\ now' = now
      /\ res'.op = "analyticsStats"
      /\ res'.status = 200)
     => SeriesExact(res'.data.dailyStats, DateOf(now))]_vars

\* a series answered with an event on each of its last two dates
DailySeriesWitness ==
  /\ res.op = "analyticsStats"
  /\ res.status = 200
  /\ res.req.zone = UTC
  /\ res.data.dailyStats[30].date = DateOf(now)
  /\ res.data.dailyStats[30].downloads = 1
  /\ res.data.dailyStats[29].views = 1


\* ---------------------------------------------------------- the bootstrap
\* `npm run migrate`: runMigrations(), then seedAdminUser() unless the
\* former threw; the exit status is 1 when either throws (seedAdminUser
\* does without the table admin_users).
Migrate ==
  LET run == runMigrations(migrationFiles, schema, migrations)
      seeds == ~run.failed /\ Table("admin_users") \in run.schema
  IN /\ schema' = run.schema
     /\ migrations' = run.ledger
     /\ admin_users' = IF seeds THEN seedAdminUser(admin_users) ELSE admin_users
     /\ UNCHANGED <<catalogVars, feedbackVars, moderationVars, migrationFiles, inflight, files, now>>
     /\ Reply("migrate", NoHeader, [files |-> migrationFiles], IF seeds THEN 0 ELSE 1,
              [applied |-> run.log, seeded |-> admin_users' # admin_users])

\* A release adds a migration file; the directory stays one that installs
\* on an empty database.
AddMigrationFile(f) ==
  /\ f \notin migrationFiles
  /\ ~runMigrations(migrationFiles \cup {f}, {}, <<>>).failed
  /\ migrationFiles' = migrationFiles \cup {f}
  /\ UNCHANGED <<catalogVars, feedbackVars, moderationVars, admin_users, schema, migrations, inflight, files, now, res>>

\* An empty database file and the first release's directory.
InitBoot ==
  /\ games = NoRows /\ gameSeq = 0
  /\ genres = NoRows /\ genreSeq = 0
  /\ game_genres = {}
  /\ game_screenshots = NoRows /\ shotSeq = 0
  /\ game_ratings = NoRows /\ ratingSeq = 0
  /\ analytics = NoRows /\ eventSeq = 0
  /\ game_reports = NoRows /\ reportSeq = 0
  /\ dmca_notices = NoRows /\ noticeSeq = 0
  /\ admin_users = NoRows
  /\ migrationFiles = {File001}
  /\ schema = {}
  /\ migrations = <<>>
  /\ inflight = NoneInFlight
  /\ files = {}
  /\ now = 0
  /\ res = [op |-> "none", hdr |-> NoHeader, req |-> [none |-> TRUE], status |-> 0, data |-> [none |-> TRUE]]

NextBoot ==
  \/ Migrate
  \/ \E f \in AllMigrationFiles : AddMigrationFile(f)

SpecBoot == InitBoot /\ [][NextBoot]_vars

\* a step of the bootstrap
Bootstraps == migrationFiles' = migrationFiles /\ res'.op = "migrate"

NameOfFile(f) == SubSeq(f, 1, Len(f) - 1)
NumberOf(name) == 100 * (CodeUnit(name[1]) - 48) + 10 * (CodeUnit(name[2]) - 48) + (CodeUnit(name[3]) - 48)
LedgerNames(ledger) == {ledger[i].name : i \in 1..Len(ledger)}
PendingFiles == {f \in migrationFiles : NameOfFile(f) \notin LedgerNames(migrations)}

\* C18: a run of the migration runner applies every file not yet in the
\* ledger exactly once, in ascending filename order, and appends its name to
\* the ledger; a run on a database whose ledger has every file, as it is
\* after a run, applies nothing and leaves schema and ledger as they were;
\* after any number of runs the ledger holds each name exactly once.
MigrationsAppliedOnce ==
  [][Bootstraps =>
       LET applied == res'.data.applied
       IN /\ res'.status = 0
          /\ Len(applied) = Cardinality(PendingFiles)
          /\ {applied[i] : i \in 1..Len(applied)} = {NameOfFile(f) : f \in PendingFiles}
          /\ \A i, j \in 1..Len(applied) : i < j => NumberOf(applied[i]) < NumberOf(applied[j])
          /\ migrations' = migrations \o [i \in 1..Len(applied) |-> [name |-> applied[i]]]
          /\ \A f \in PendingFiles : \A k \in 1..Len(readFileSync(f)) : ObjectsOf(readFileSync(f)[k]) \subseteq schema'
          /\ (PendingFiles = {} => schema' = schema /\ migrations' = migrations)
          /\ LedgerNames(migrations') = {NameOfFile(f) : f \in migrationFiles}
          /\ \A i, j \in 1..Len(migrations') : migrations'[i].name = migrations'[j].name => i = j]_vars

\* a second run after files were added out of filename order: 004 is applied
\* after 005 and nothing else is
MigrationsWitness ==
  /\ res.op = "migrate"
  /\ res.data.applied = <<NameOfFile(File004)>>
  /\ Len(migrations) = 3
  /\ migrations[2].name = NameOfFile(File005)
  /\ migrations[3].name = NameOfFile(File004)

Accounts(users) == {id \in DOMAIN users : users[id].username = AdminName}

\* C19: the bootstrap creates the default account exactly when no account is
\* present; however often it runs there is at most one default account and
\* no existing account is altered.
DefaultAdminSeededOnce ==
  [][Bootstraps =>
       /\ (res'.data.seeded <=> DOMAIN admin_users = {})
       /\ \A id \in DOMAIN admin_users : id \in DOMAIN admin_users' /\ admin_users'[id] = admin_users[id]
       /\ Cardinality(DOMAIN admin_users') = Cardinality(DOMAIN admin_users) + (IF res'.data.seeded THEN 1 ELSE 0)
       /\ Cardinality(Accounts(admin_users')) = 1
       /\ \A id \in Accounts(admin_users') : compareSync(AdminName, admin_users'[id].password_hash)]_vars

\* a bootstrap of a database that has its account: nothing seeded
SeedSkippedWitness ==
  /\ res.op = "migrate"
  /\ res.status = 0
  /\ ~res.data.seeded
  /\ Len(migrations) = 2
  /\ Accounts(admin_users) = {1}


\* ------------------------------------------------------- the list of games
ListedCreates ==
  {[body |-> [title |-> Str(<<"T", "a">>)], genres |-> OneGenre, screenshots |-> NoList],
   [body |-> [title |-> Str(<<"b">>)], genres |-> NoList, screenshots |-> NoList]}

PageValues == {Undefined, Str(<<"0">>), Str(<<"1">>), Str(<<"2">>), Str(<<"-", "1">>), Str(<<"x">>), Str(<<"2", ".", "9">>)}
LimitValues == {Undefined, Str(<<"0">>), Str(<<"1">>), Str(<<"2">>), Str(<<"-", "3">>), Str(<<"1", "0", "0", "0">>), Str(<<"x">>)}
SearchValues == {Undefined, EmptyStr, Str(<<"t">>), Str(<<"A">>), Str(<<"_">>), Str(<<"%">>), Str(<<"a", "b">>)}
GenreValues == {Undefined, EmptyStr, Str(<<"a", "c">>), Str(<<"z">>)}

ListQuery(p, l, s, g, d) == [page |-> p, limit |-> l, search |-> s, genre |-> g, period |-> d]

ListQueries ==
  {ListQuery(p, Undefined, Undefined, Undefined, Undefined) : p \in PageValues}
  \cup {ListQuery(Undefined, l, Undefined, Undefined, Undefined) : l \in LimitValues}
  \cup {ListQuery(p, Str(<<"1">>), s, Undefined, Undefined) : p \in {Undefined, Str(<<"2">>)}, s \in SearchValues}
  \cup {ListQuery(p, Str(<<"1">>), Undefined, g, Undefined) : p \in {Undefined, Str(<<"2">>)}, g \in GenreValues}
  \cup {ListQuery(Undefined, Undefined, Str(<<"t">>), Str(<<"a", "c">>), Str(<<"24h">>))}

\* the uuid of the next game
NextUuid == IF gameSeq = 0 THEN "u1" ELSE "u2"

NextListGames ==
  \/ Tick
  \/ \E req \in ListedCreates : GameWithSlug(Uuid(NextUuid)) = {} /\ CreateGame(FreshHeader, req, NextUuid)
  \/ \E query \in ListQueries : ListGames(query)

SpecListGames == Init /\ [][NextListGames]_vars

\* the search text occurs in the title, letters compared without case and _
\* standing for any character; a text with % is a LIKE pattern
TitleHas(search, title) ==
  IF \E k \in 1..Len(search) : search[k] = "%"
  THEN Like(<<"%">> \o search \o <<"%">>, title)
  ELSE \E i \in 0..(Len(title) - Len(search)) :
         \A k \in 1..Len(search) :
           search[k] = "_" \/ ToLowerChar(search[k]) = ToLowerChar(title[i + k])

Wanted(query) ==
  {id \in DOMAIN games :
     /\ Truthy(query.search) => TitleHas(query.search.s, games[id]["title"].s)
     /\ Truthy(query.genre) =>
          \E g \in DOMAIN genres : genres[g].slug = query.genre.s /\ <<id, g>> \in game_genres}

\* C20: whatever page and limit are asked, the list of games is answered
\* with a limit in 1..100 and a page of at least 1, at most limit games,
\* the most recently created first, all matching the filters; total is the
\* number of games matching the search and genre filters (an empty filter
\* matching every game, a game counted once), whatever the page, and
\* totalPages is total / limit rounded up.
ListGamesContract ==
  res.op = "listGames" =>
    LET p == res.data.pagination
        rows == res.data.games
    IN /\ res.status = 200
       /\ p.limit \in 1..100
       /\ p.page \in Nat \ {0}
       /\ Len(rows) <= p.limit
       /\ \A i, j \in 1..Len(rows) :
            i < j => /\ rows[i].id # rows[j].id
                     /\ games[rows[i].id]["created_at"].n >= games[rows[j].id]["created_at"].n
       /\ \A i \in 1..Len(rows) : rows[i].id \in Wanted(res.req) /\ rows[i].game = games[rows[i].id]
       /\ p.total = Cardinality(Wanted(res.req))
       /\ p.totalPages \in Nat
       /\ p.totalPages * p.limit >= p.total
       /\ (p.totalPages - 1) * p.limit < p.total

\* the second page of two games listed one a page
ListGamesWitness ==
  /\ res.op = "listGames"
  /\ res.req.page = Str(<<"2">>)
  /\ res.req.limit = Str(<<"1">>)
  /\ res.data.pagination = [page |-> 2, limit |-> 1, total |-> 2, totalPages |-> 2]
  /\ Len(res.data.games) = 1
  /\ games[res.data.games[1].id]["created_at"].n < games[3 - res.data.games[1].id]["created_at"].n


\* ------------------------------------------------- genre reconciliation
GenreLists ==
  {<<>>, << <<"A", "c">> >>, << <<"A", "c">>, <<"A", "c">> >>, << <<"A", "c">>, <<"a", "c", "!">> >>,
   << <<"a", "-", "c">> >>, << <<"a", "c", "!">>, <<"a", " ", "&", " ", "c">> >>}

GenreCreates == {[body |-> [title |-> Str(<<"T">>)], genres |-> <<L>>, screenshots |-> NoList] : L \in GenreLists}

GenreUpdates ==
  {[id |-> id, body |-> NoBody, genres |-> <<L>>, screenshots |-> NoList] : id \in 1..MaxGames, L \in GenreLists}

NextReconcile ==
  \/ \E req \in GenreCreates : GameWithSlug(Uuid(NextUuid)) = {} /\ CreateGame(AdminHeader, req, NextUuid)
  \/ \E req \in GenreUpdates : UpdateGame(AdminHeader, req)
  \/ \E n \in {<<"a", "-", "c">>} : PostGenre(AdminHeader, Str(n))
  \/ \E id \in 1..MaxGenres : DeleteGenre(AdminHeader, id)

SpecReconcile == Init /\ [][NextReconcile]_vars

SlugsOf(L) == {createSlug(L[i]) : i \in 1..Len(L)}
LinksOf(links, gameId) == {l \in links : l[1] = gameId}

\* genre reconciliation of game `id` with the list L has run in this step
Reconciled(id, L) ==
  \/ res'.op = "createGame" /\ res'.status = 201 /\ res'.req.genres = <<L>> /\ id = gameSeq'
  \/ res'.op = "updateGame" /\ res'.status = 200 /\ res'.req.genres = <<L>> /\ id = res'.req.id

\* C21: after genre reconciliation of a game with a name list L the game is
\* linked to exactly the genres whose slug derives from a name of L, one
\* link a slug; a missing genre is created once; the links of other games
\* and every genre row there was are unchanged, so a genre left without a
\* game stays.
ReconcileLinksExactly ==
  [][\A id \in 1..MaxGames : \A L \in GenreLists :
       Reconciled(id, L) =>
         /\ {genres'[l[2]].slug : l \in LinksOf(game_genres', id)} = SlugsOf(L)
         /\ Cardinality(LinksOf(game_genres', id)) = Cardinality(SlugsOf(L))
         /\ \A l \in LinksOf(game_genres', id) : l[2] \in DOMAIN genres'
         /\ game_genres' \ LinksOf(game_genres', id) = game_genres \ LinksOf(game_genres, id)
         /\ \A g \in DOMAIN genres : g \in DOMAIN genres' /\ genres'[g] = genres[g]
         /\ Cardinality(DOMAIN genres') - Cardinality(DOMAIN genres)
              = Cardinality({sl \in SlugsOf(L) : GenreWithSlug(genres, sl) = {}})
         /\ \A g, h \in DOMAIN genres' : genres'[g].slug = genres'[h].slug => g = h]_vars

\* game 1, linked to "ac", was reconciled with ["a-c"]: its only link is the
\* genre "a-c" and the genre "ac" stays without a game
ReconcileWitness ==
  /\ res.op = "updateGame"
  /\ res.status = 200
  /\ res.req.id = 1
  /\ res.req.genres = << << <<"a", "-", "c">> >> >>
  /\ \E g, h \in DOMAIN genres :
       /\ genres[g].slug = <<"a", "c">>
       /\ genres[h].slug = <<"a", "-", "c">>
       /\ game_genres = {<<1, h>>}


\* ------------------------------------------------- the status lifecycle
\* Updates naming each status of the kind; only the one naming `closed`
\* carries a note.
LifecycleBodies(statuses, closed) ==
  {ModerationBody(Str(s), Undefined, Undefined) : s \in statuses}
    \cup {ModerationBody(Str(closed), Secret, Undefined)}

NextLifecycle ==
  \/ CreateGame(AdminHeader, TitleOnly, "u1")
  \/ reportSeq = 0 /\ SubmitReport(ReportBody(Num(1)), "u1")
  \/ noticeSeq = 0 /\ SubmitNotice(NoticeBody(Num(1)), "u2")
  \/ \E body \in LifecycleBodies(ReportStatuses, <<"resolved">>) : UpdateReport(AdminHeader, 1, body)
  \/ \E body \in LifecycleBodies(NoticeStatuses, <<"completed">>) : UpdateNotice(AdminHeader, 1, body)

SpecLifecycle == Init /\ [][NextLifecycle]_vars

\* an administrator's update of row 1 of `table`, in status `from`, naming
\* the status `to` is answered 200 and leaves the row in status `to`
Moves(op, table, after, from, to) ==
  (/\ res'.op = op
   /\ 1 \in DOMAIN table
   /\ table[1].status = Str(from)
   /\ res'.req.body.status = Str(to))
  => (res'.status = 200 /\ after[1].status = Str(to))

\* C22: the status of a report or a notice moves from every valid status
\* of its kind to every valid status of its kind, the terminal ones
\* included, by an administrator's update naming the new status.
EveryTransitionAllowed ==
  [][/\ \A s \in ReportStatuses : \A t \in ReportStatuses :
          Moves("updateReport", game_reports, game_reports', s, t)
     /\ \A s \in NoticeStatuses : \A t \in NoticeStatuses :
          Moves("updateNotice", dmca_notices, dmca_notices', s, t)]_vars

\* a report that carries the note written when it was resolved is pending
\* again, and a notice once completed is under review
ReopenedWitness ==
  /\ 1 \in DOMAIN game_reports
  /\ game_reports[1].admin_notes = Secret
  /\ game_reports[1].status = Pending
  /\ 1 \in DOMAIN dmca_notices
  /\ dmca_notices[1].admin_notes = Secret
  /\ dmca_notices[1].status = Str(<<"reviewing">>)


\* --------------------------------------- genre creation, statement by statement
\* The find-or-create of a genre as the two statements it is in POST
\* /genres, POST /genres/ensure, updateGameGenres and the Steam import:
\* SELECT ... WHERE slug = ?, then INSERT INTO genres when no row came back.
\* A caller is a server process on the shared database file; SQLite runs
\* each statement on its own.
GenreOps == {"postGenre", "ensureGenres", "updateGameGenres", "steamImport"}

InsertGenreUnchecked(table, name, slug) == TRUE
\* INSERT INTO genres (name, slug) VALUES (?, ?)
InsertGenre(table, name, slug) == GenreInsertAllowed(table, name, slug)

\* the lookup by slug of a caller's request
GenreLookup(c, op, name) ==
  LET found == GenreWithSlug(genres, createSlug(name))
      req == [caller |-> c, name |-> name]
  IN /\ inflight[c].pc = "idle"
     /\ UNCHANGED <<catalogVars, feedbackVars, moderationVars, admin_users, migrationFiles, schema,
                    migrations, files, now>>
     /\ IF found = {}
        THEN /\ inflight' = [inflight EXCEPT ![c] = [op |-> op, name |-> name, pc |-> "missed"]]
             /\ UNCHANGED res
        ELSE /\ inflight' = [inflight EXCEPT ![c] = [op |-> op, name |-> name, pc |-> "found"]]
             /\ IF op = "postGenre"
                THEN Reply(op, AdminHeader, req, 409, ErrorBody)
                ELSE Reply(op, AdminHeader, req, 200, [genre |-> GenreRowOf(genres, Min(found))])

\* the insert after a lookup that found no row; a constraint violation is
\* thrown and answered 500
GenreInsert(c) ==
  LET name == inflight[c].name
      slug == createSlug(name)
      req == [caller |-> c, name |-> name]
  IN /\ inflight[c].pc = "missed"
     /\ UNCHANGED <<games, gameSeq, game_genres, game_screenshots, shotSeq>>
     /\ UNCHANGED <<feedbackVars, moderationVars, admin_users, migrationFiles, schema, migrations, files, now>>
     /\ IF InsertGenre(genres, name, slug)
        THEN /\ genreSeq < MaxGenres
             /\ genreSeq' = genreSeq + 1
             /\ genres' = genres @@ (genreSeq' :> [name |-> name, slug |-> slug, created_at |-> now])
             /\ inflight' = [inflight EXCEPT ![c].pc = "inserted"]
             /\ Reply(inflight[c].op, AdminHeader, req, IF inflight[c].op = "postGenre" THEN 201 ELSE 200,
                      [genre |-> GenreRowOf(genres', genreSeq')])
        ELSE /\ UNCHANGED <<genres, genreSeq>>
             /\ inflight' = [inflight EXCEPT ![c].pc = "failed"]
             /\ Reply(inflight[c].op, AdminHeader, req, 500, ErrorBody)

NextRace ==
  \/ \E c \in Callers, op \in GenreOps, name \in GenreNames : GenreLookup(c, op, name)
  \/ \E c \in Callers : GenreInsert(c)

SpecRace == Init /\ [][NextRace]_vars

SlugOfCaller(c) == createSlug(inflight[c].name)

\* C23: with the lookups and inserts of genre-creating requests interleaved
\* no two genre rows ever share a slug: of two callers that both missed the
\* lookup of one slug, the first to insert adds the row, and the other's
\* insert adds nothing, is answered with the error thrown and leaves that
\* caller failed, with no second attempt.
OneInsertWins ==
  [][/\ \A g, h \in DOMAIN genres' : genres'[g].slug = genres'[h].slug => g = h
     /\ \A c \in Callers :
          (inflight[c].pc = "missed" /\ inflight'[c].pc # "missed") =>
            IF GenreWithSlug(genres, SlugOfCaller(c)) = {}
            THEN /\ inflight'[c].pc = "inserted"
                 /\ Cardinality(GenreWithSlug(genres', SlugOfCaller(c))) = 1
                 /\ Cardinality(DOMAIN genres') = Cardinality(DOMAIN genres) + 1
            ELSE /\ inflight'[c].pc = "failed"
                 /\ genres' = genres
                 /\ res'.status = 500
                 /\ res'.req.caller = c
     /\ \A c \in Callers : inflight[c].pc = "failed" => inflight'[c].pc # "inserted"]_vars

\* both callers missed the lookup of the slug "ac"; one inserted its row and
\* the other failed
RaceWitness ==
  /\ inflight["c1"].pc = "inserted"
  /\ inflight["c2"].pc = "failed"
  /\ inflight["c1"].name = <<"A", "c">>
  /\ inflight["c2"].name = <<"a", "c", "!">>
  /\ Cardinality(DOMAIN genres) = 1


\* --------------------------------------------------------- the Steam import
\* What a download leaves: <<>> a failure, <<name>> the file steam_<name>.jpg.
Failing == <<>>
ScreenshotOutcomes ==
  {<<>>, << <<"i1">> >>, <<Failing, <<"i1">> >>,
   << <<"i1">>, Failing, <<"i2">>, Failing, <<"i3">>, <<"i6">> >>,
   <<Failing, Failing, Failing, Failing, Failing, <<"i6">> >>}
CoverOutcomes == {<<>>, <<Failing>>, << <<"i0">> >>}

SteamAnswers ==
  {[kind |-> k, data |-> [SteamData(Str(<<"S">>)) EXCEPT !.header_image = h, !.screenshots = ss]] :
     k \in {"ok", "absent"}, h \in CoverOutcomes, ss \in ScreenshotOutcomes}

NextImport ==
  \/ \E steam \in SteamAnswers :
       GameWithSlug(Uuid(NextUuid)) = {} /\ SteamImport(AdminHeader, ImportBody, steam, NextUuid)
  \/ \E id \in 1..MaxGames : DeleteGame(AdminHeader, id)

SpecImport == Init /\ [][NextImport]_vars

Succeeded(outcomes) == SelectSeq(outcomes, LAMBDA o : o # Failing)
SteamFile(o) == <<"steam_", o[1], ".jpg">>
SteamPath(o) == Str(<<"/uploads/">> \o SteamFile(o))

Imported(steam) ==
  LET id == gameSeq + 1
      attempted == SubSeq(steam.data.screenshots, 1, IF Len(steam.data.screenshots) < 5 THEN Len(steam.data.screenshots) ELSE 5)
      kept == Succeeded(attempted)
      cover == Succeeded(steam.data.header_image)
      rows == {r \in DOMAIN game_screenshots' : game_screenshots'[r].game_id = id}
  IN IF steam.kind = "absent"
     THEN res'.status = 404 /\ UNCHANGED <<catalogVars, files>>
     ELSE /\ res'.status = 201
          /\ id \in DOMAIN games' /\ id \notin DOMAIN games
          /\ games'[id]["cover_image"] = (IF cover = <<>> THEN Null ELSE SteamPath(cover[1]))
          /\ Cardinality(rows) = Len(kept)
          /\ \A i \in 1..Len(kept) :
               \E r \in rows : /\ game_screenshots'[r].image_path = SteamPath(kept[i])
                               /\ game_screenshots'[r].sort_order = i - 1
          /\ files' = files \cup {SteamFile(kept[i]) : i \in 1..Len(kept)}
                            \cup {SteamFile(cover[i]) : i \in 1..Len(cover)}

\* C24: an import whose application Steam does not know is answered 404 and
\* writes no file and no row; an import of a known application creates the
\* game whichever downloads fail: the cover is the downloaded file or
\* null, only the first five screenshots are tried, and those that succeed
\* are stored in their order with the sort keys 0, 1, ...
ImportSurvivesFailedDownloads ==
  [][\A steam \in SteamAnswers :
       SteamImport(AdminHeader, ImportBody, steam, NextUuid) => Imported(steam)]_vars

\* an import with the second and fourth of six screenshots failing: three
\* rows and no file of the sixth
ImportWitness ==
  /\ res.op = "steamImport"
  /\ res.status = 201
  /\ Cardinality(DOMAIN game_screenshots) = 3
  /\ <<"steam_", "i3", ".jpg">> \in files
  /\ <<"steam_", "i6", ".jpg">> \notin files
  /\ \E r \in DOMAIN game_screenshots :
       game_screenshots[r].sort_order = 2 /\ game_screenshots[r].image_path = Str(<<"/uploads/", "steam_", "i3", ".jpg">>)


\* ------------------------------------------------ a migration that fails
\* A directory that lacks files: any file may be put there, whatever it
\* needs.
PutMigrationFile(f) ==
  /\ f \notin migrationFiles
  /\ migrationFiles' = migrationFiles \cup {f}
  /\ UNCHANGED <<catalogVars, feedbackVars, moderationVars, admin_users, schema, migrations, inflight, files, now, res>>

SomeMigrationFiles == {File001, File002, File003, File005, File007, File008}

\* An empty database file and an empty directory.
InitBare ==
  /\ games = NoRows /\ gameSeq = 0
  /\ genres = NoRows /\ genreSeq = 0
  /\ game_genres = {}
  /\ game_screenshots = NoRows /\ shotSeq = 0
  /\ game_ratings = NoRows /\ ratingSeq = 0
  /\ analytics = NoRows /\ eventSeq = 0
  /\ game_reports = NoRows /\ reportSeq = 0
  /\ dmca_notices = NoRows /\ noticeSeq = 0
  /\ admin_users = NoRows
  /\ migrationFiles = {}
  /\ schema = {}
  /\ migrations = <<>>
  /\ inflight = NoneInFlight
  /\ files = {}
  /\ now = 0
  /\ res = [op |-> "none", hdr |-> NoHeader, req |-> [none |-> TRUE], status |-> 0, data |-> [none |-> TRUE]]

NextBare ==
  \/ Migrate
  \/ \E f \in SomeMigrationFiles : PutMigrationFile(f)

SpecBare == InitBare /\ [][NextBare]_vars

AppliedNames(applied) == {applied[i] : i \in 1..Len(applied)}
FileNamed(name) == CHOOSE f \in AllMigrationFiles : NameOfFile(f) = name
ObjectsOfFile(f) == UNION {ObjectsOf(readFileSync(f)[k]) : k \in 1..Len(readFileSync(f))}

\* C25: when a run of the migrations stops at a file k that fails, the
\* files applied in that run are exactly the pending ones sorting before k,
\* in order and recorded; nothing of k or of a later file is in the schema
\* or the ledger; and the run ends with an error before the account is
\* seeded.
FailedMigrationRolledBack ==
  [][Bootstraps =>
       LET applied == res'.data.applied
           left == {NameOfFile(f) : f \in PendingFiles} \ AppliedNames(applied)
       IN left # {} =>
            /\ AppliedNames(applied) \subseteq {NameOfFile(f) : f \in PendingFiles}
            /\ \A a \in AppliedNames(applied) : \A p \in left : NumberOf(a) < NumberOf(p)
            /\ \A i, j \in 1..Len(applied) : i < j => NumberOf(applied[i]) < NumberOf(applied[j])
            /\ migrations' = migrations \o [i \in 1..Len(applied) |-> [name |-> applied[i]]]
            /\ schema' = schema \cup UNION {ObjectsOfFile(FileNamed(a)) : a \in AppliedNames(applied)}
                                \cup (IF applied = <<>> THEN {} ELSE {Table("migrations")})
            /\ res'.status = 1
            /\ ~res'.data.seeded
            /\ admin_users' = admin_users]_vars

\* 007 failed at its second statement after 001 and 005 were applied: the
\* column its first statement added is gone, 008 was not tried and no
\* account was seeded
FailedMigrationWitness ==
  /\ res.op = "migrate"
  /\ res.status = 1
  /\ res.data.applied = <<NameOfFile(File001), NameOfFile(File005)>>
  /\ migrationFiles = {File001, File005, File007, File008}
  /\ Table("dmca_notices") \in schema
  /\ Column("dmca_notices", "tracking_id") \notin schema
  /\ Column("dmca_notices", "public_note") \notin schema
  /\ Len(migrations) = 2
  /\ admin_users = NoRows


\* ------------------------------------- a screenshot INSERT that fails
\* screenshot lists with a null entry, which the NOT NULL image_path refuses
BrokenLists == {<<Null>>, <<PathA, Null>>, <<PathB, Null>>, <<Null, PathA>>, <<PathB, Null, PathA>>}

Retitled == [title |-> Str(<<"T", "2">>)]
OtherGenre == << << <<"a", "-", "c">> >> >>

BrokenCreates ==
  {[body |-> [title |-> Str(<<"T">>)], genres |-> OneGenre, screenshots |-> <<P>>] :
     P \in {<<>>, <<PathA>>, <<PathA, PathB>>}}

BrokenUpdates ==
  {[id |-> id, body |-> Retitled, genres |-> OtherGenre, screenshots |-> <<P>>] :
     id \in 1..MaxGames, P \in BrokenLists}

NextBroken ==
  \/ \E u \in {"a", "b"} : Upload(AdminHeader, PngFile, u)
  \/ \E req \in BrokenCreates : GameWithSlug(Uuid(NextUuid)) = {} /\ CreateGame(AdminHeader, req, NextUuid)
  \/ \E req \in BrokenUpdates : UpdateGame(AdminHeader, req)

SpecBroken == Init /\ [][NextBroken]_vars

\* the index of the first entry of P that the INSERT refuses
FirstRefused(P) == CHOOSE k \in 1..Len(P) : P[k] = Null /\ \A j \in 1..(k - 1) : P[j] # Null

\* C26: when the k-th INSERT of a screenshot reconciliation fails during
\* an update, the request is answered 500 and nothing is undone: the
\* files of the removed screenshots are gone, every previous screenshot
\* row of the game is gone, the first k-1 new rows are there, and the
\* game row carries the update and the game the genres of the request.
ScreenshotFailureKeepsPartialWrites ==
  [][\A req \in BrokenUpdates :
       (req.id \in DOMAIN games /\ UpdateGame(AdminHeader, req)) =>
         LET id == req.id
             P == req.screenshots[1]
             k == FirstRefused(P)
             old == ShotsOf(game_screenshots, id)
         IN /\ res'.status = 500
            /\ files' = files \ FilesOf(ShotPaths(game_screenshots, id) \ Range(P))
            /\ old \cap DOMAIN game_screenshots' = {}
            /\ ShotsOf(game_screenshots', id) = (shotSeq + 1)..(shotSeq + k - 1)
            /\ \A i \in 1..(k - 1) :
                 game_screenshots'[shotSeq + i] = [game_id |-> id, image_path |-> P[i], sort_order |-> i - 1]
            /\ \A r \in DOMAIN game_screenshots \ old :
                 r \in DOMAIN game_screenshots' /\ game_screenshots'[r] = game_screenshots[r]
            /\ games'[id] = UpdatedGameRow(games[id], req.body)
            /\ {genres'[l[2]].slug : l \in LinksOf(game_genres', id)} = SlugsOf(req.genres[1])]_vars

\* game 1 had the uploaded screenshot a.png; the update with [b.png, null]
\* was answered 500, a.png is gone with its row, the row of b.png is in,
\* and the game has its new title and genre
ScreenshotFailureWitness ==
  /\ res.op = "updateGame" /\ res.status = 500
  /\ res.req.id = 1
  /\ res.req.screenshots = << <<PathB, Null>> >>
  /\ files = FilesOf({PathB})
  /\ ShotsOf(game_screenshots, 1) = {2}
  /\ game_screenshots[2].image_path = PathB
  /\ games[1]["title"] = Str(<<"T", "2">>)
  /\ \E g \in DOMAIN genres : genres[g].slug = <<"a", "-", "c">> /\ LinksOf(game_genres, 1) = {<<1, g>>}


\* ------------------------------------ reports and notices of a deleted game
AllNotices == [status |-> Undefined, includeCompleted |-> Str(<<"true">>), page |-> Undefined, limit |-> Undefined]

NextOrphan ==
  \/ CreateGame(AdminHeader, TitleOnly, NextUuid)
  \/ \E g \in 1..MaxGames : reportSeq = 0 /\ SubmitReport(ReportBody(Num(g)), "u1")
  \/ \E g \in 1..MaxGames : noticeSeq = 0 /\ SubmitNotice(NoticeBody(Num(g)), "u2")
  \/ \E b \in {ModerationBody(Str(<<"reviewing">>), Secret, Undefined),
               ModerationBody(Undefined, Undefined, Str(<<"note">>))} : UpdateNotice(AdminHeader, 1, b)
  \/ \E id \in 1..MaxGames : DeleteGame(AdminHeader, id)
  \/ TrackReport(Uuid("u1"))
  \/ TrackNotice(Uuid("u2"))
  \/ GetNotice(AdminHeader, 1)
  \/ ListNotices(AdminHeader, AllNotices)

SpecOrphan == Init /\ [][NextOrphan]_vars

\* the row apart from its game link
Unlinked(row) == [row EXCEPT !.game_id = Null]

\* what deleting game `id` does to the reports and the notices
GameGone(id) ==
  /\ \A r \in DOMAIN game_reports :
       IF game_reports[r].game_id = Num(id)
       THEN /\ r \notin DOMAIN game_reports'
            /\ TrackIn("report", game_reports', game_reports[r].tracking_id).status = 404
       ELSE r \in DOMAIN game_reports' /\ game_reports'[r] = game_reports[r]
  /\ DOMAIN dmca_notices' = DOMAIN dmca_notices
  /\ \A n \in DOMAIN dmca_notices :
       IF dmca_notices[n].game_id = Num(id)
       THEN dmca_notices'[n] = Unlinked(dmca_notices[n])
       ELSE dmca_notices'[n] = dmca_notices[n]

\* the three reads answer every notice there is, with or without a game
NoticeTracked ==
  \A n \in WithTrackingId(dmca_notices, res'.req.trackingId) :
    /\ res'.status = 200
    /\ res'.data.status = dmca_notices[n].status
    /\ res'.data.public_note = dmca_notices[n].public_note

NoticeRead ==
  \A n \in DOMAIN dmca_notices \cap {res'.req.id} :
    /\ res'.status = 200
    /\ res'.data.row = dmca_notices[n]
    /\ (dmca_notices[n].game_id = Null) => (res'.data.game_title = Null)

NoticesListed ==
  /\ res'.status = 200
  /\ Listed(res'.data) = DOMAIN dmca_notices
  /\ \A i \in DOMAIN res'.data.rows : res'.data.rows[i].row = dmca_notices[res'.data.rows[i].id]

\* C27: a deleted game takes every report filed against it along, so that
\* tracking such a report answers 404, and leaves every notice that named
\* it with the game link cleared and nothing else changed; such a notice is
\* still answered by the track endpoint and by the moderator's list and
\* get-by-id, with the status and notes it has.
DeleteGameKeepsNotices ==
  [][/\ (res'.op = "deleteGame" /\ res'.status = 200) => GameGone(res'.req.id)
     /\ (res'.op = "trackNotice") => NoticeTracked
     /\ (res'.op = "getNotice") => NoticeRead
     /\ (res'.op = "listNotices") => NoticesListed]_vars

\* the game is gone with its report; its notice, moved to "reviewing" with
\* a note before, is read by id with those values and no game
OrphanNoticeWitness ==
  /\ res.op = "getNotice" /\ res.status = 200
  /\ games = NoRows /\ gameSeq = 1
  /\ game_reports = NoRows /\ reportSeq = 1
  /\ res.data.row.game_id = Null
  /\ res.data.row.status = Str(<<"reviewing">>)
  /\ res.data.row.admin_notes = Secret
  /\ res.data.game_title = Null


\* ------------------------------------------------- totals and pages
PageQuery(flag, s, i, p, l) ==
  IF flag = "includeResolved"
  THEN [status |-> s, includeResolved |-> i, page |-> p, limit |-> l]
  ELSE [status |-> s, includeCompleted |-> i, page |-> p, limit |-> l]

\* every filter and flag read page by page, one row a page, and by default
PageQueries(flag, closed) ==
  {PageQuery(flag, s, i, p, Str(<<"1">>)) :
     s \in {Undefined, Pending, Str(closed)},
     i \in {Undefined, Str(<<"true">>)},
     p \in {Undefined, Str(<<"2">>)}}
    \cup {PageQuery(flag, Undefined, i, Undefined, Undefined) : i \in {Undefined, Str(<<"true">>)}}

NextUuidOf(seq) == IF seq = 0 THEN "u1" ELSE "u2"

NextPages ==
  \/ CreateGame(AdminHeader, TitleOnly, NextUuid)
  \/ \E g \in 1..MaxGames : SubmitReport(ReportBody(Num(g)), NextUuidOf(reportSeq))
  \/ \E g \in 1..MaxGames : SubmitNotice(NoticeBody(Num(g)), NextUuidOf(noticeSeq))
  \/ UpdateReport(AdminHeader, 1, StatusOnly(<<"resolved">>))
  \/ UpdateNotice(AdminHeader, 1, StatusOnly(<<"completed">>))
  \/ \E id \in 1..MaxGames : DeleteGame(AdminHeader, id)
  \/ \E q \in PageQueries("includeResolved", <<"resolved">>) : ListReports(AdminHeader, q)
  \/ \E q \in PageQueries("includeCompleted", <<"completed">>) : ListNotices(AdminHeader, q)

SpecPages == Init /\ [][NextPages]_vars

\* the rows on page `page` of `total` rows read `limit` a page
RowsOnPage(total, page, limit) == Max({0, Min({limit, total - (page - 1) * limit})})

\* C28: every page a report list or a notice list answers holds the rows
\* its total leaves for that page, so that the rows of all pages of a
\* query are as many as the total it reports: the count without the join
\* and the joined rows are the same rows.
TotalEqualsRowsOfAllPages ==
  [][(res'.op \in {"listReports", "listNotices"} /\ res'.status = 200) =>
       Len(res'.data.rows) = RowsOnPage(res'.data.pagination.total, PageOf(res'.req), LimitOf(res'.req))]_vars

\* one of two games was deleted with its report and its notice lost its
\* link; the report list counts and answers the one report left
TotalWitness ==
  /\ res.op = "listReports" /\ res.status = 200
  /\ reportSeq = 2 /\ Cardinality(DOMAIN game_reports) = 1
  /\ Cardinality(DOMAIN games) = 1
  /\ \E n \in DOMAIN dmca_notices : dmca_notices[n].game_id = Null
  /\ res.req.page = Undefined /\ res.req.limit = Str(<<"1">>)
  /\ res.data.pagination.total = 1
  /\ Len(res.data.rows) = 1


\* ------------------------------------------------- notes are never cleared
NoteFields == {"admin_notes", "public_note"}

\* an update of row `id` of `table` (now `after`) by `body` was answered 200
NotesKept(table, after, id, body) ==
  /\ \A f \in NoteFields :
       /\ (body[f] \in {Null, Undefined}) => (after[id][f] = table[id][f])
       /\ (body[f] \notin {Null, Undefined}) => (after[id][f] = body[f])
       /\ (table[id][f] # Null) => (after[id][f] # Null)
  /\ (body.status \in {Null, Undefined, EmptyStr}) => (after[id].status = table[id].status)

\* C29: an answered update of a report or notice leaves a note the body
\* gives as null as it is, exactly as when the body omits it, and stores
\* any other value given, the empty string included, so that a note once
\* non-null is never null again; a null or empty status keeps the status.
NotesNeverCleared ==
  [][/\ (res'.op = "updateReport" /\ res'.status = 200) =>
          NotesKept(game_reports, game_reports', res'.req.id, res'.req.body)
     /\ (res'.op = "updateNotice" /\ res'.status = 200) =>
          NotesKept(dmca_notices, dmca_notices', res'.req.id, res'.req.body)]_vars

\* the report's moderator note was set, the last update gave null for it
\* and it is still there
NotesWitness ==
  /\ res.op = "updateReport" /\ res.status = 200
  /\ res.req.body.admin_notes = Null
  /\ game_reports[1].admin_notes = Secret


\* ------------------------------------------- downloads that are answered
\* The image URLs of the model: the cover, two screenshots, and two
\* addresses an answer may redirect to.
CoverUrl == <<"cover">>
ShotUrls == << <<"shot1">>, <<"shot2">> >>
MovedUrls == {<<"moved1">>, <<"moved2">>}

\* What the upstream server answers a request: a 301/302 with a Location,
\* a 301/302 without one or another status than 200, a 200 whose body is
\* stored, a 200 whose body cannot be stored, a failed request.
UpstreamAnswers ==
  {[kind |-> "redirect", location |-> l] : l \in MovedUrls}
    \cup {[kind |-> k, location |-> <<>>] : k \in {"status", "stored", "unstored", "error"}}

\* the file name drawn for the image asked at `url`
FinalName(url) == CASE url = CoverUrl -> "i0" [] url = ShotUrls[1] -> "i1" [] OTHER -> "i2"

Downloading(c) == inflight[c].pc = "downloading"

\* POST /api/steam/import up to its first await of downloadImage: Steam
\* answered the application with a cover and `n` screenshots.
ImportRequest(c, n) ==
  /\ inflight[c].pc \in {"idle", "answered"}
  /\ gameSeq < MaxGames
  /\ shotSeq + n <= MaxShots
  /\ inflight' = [inflight EXCEPT ![c] =
       [op |-> "steamImport", name |-> <<>>, pc |-> "downloading",
        asked |-> CoverUrl, url |-> CoverUrl, todo |-> SubSeq(ShotUrls, 1, n),
        cover |-> <<>>, shots |-> <<>>, moved |-> FALSE]]
  /\ UNCHANGED <<catalogVars, feedbackVars, moderationVars, admin_users, migrationFiles, schema, migrations,
                 files, now, res>>

\* The promise of the download in flight resolves with `outcome` (<<>> for
\* null): the next image is asked, or the downloads are over.
resolve(c, outcome) ==
  LET f == inflight[c]
      cover == IF f.asked = CoverUrl THEN <<outcome>> ELSE f.cover
      shots == IF f.asked = CoverUrl THEN f.shots ELSE Append(f.shots, outcome)
  IN IF f.todo = <<>>
     THEN [f EXCEPT !.pc = "downloaded", !.cover = cover, !.shots = shots]
     ELSE [f EXCEPT !.asked = Head(f.todo), !.url = Head(f.todo), !.todo = Tail(f.todo),
                    !.cover = cover, !.shots = shots]

\* The response callback of https.get in downloadImage, and its error
\* handlers: a redirect with a Location starts downloadImage over at the
\* new address and resolves with what that call resolves with.
Upstream(c, answer) ==
  /\ Downloading(c)
  /\ UNCHANGED <<catalogVars, feedbackVars, moderationVars, admin_users, migrationFiles, schema, migrations,
                 now, res>>
  /\ IF answer.kind = "redirect"
     THEN /\ inflight' = [inflight EXCEPT ![c].url = answer.location, ![c].moved = TRUE]
          /\ UNCHANGED files
     ELSE IF answer.kind = "stored"
     THEN /\ inflight' = [inflight EXCEPT ![c] = resolve(c, <<FinalName(inflight[c].asked)>>)]
          /\ files' = downloadImage(<<FinalName(inflight[c].asked)>>, files).files
     ELSE /\ inflight' = [inflight EXCEPT ![c] = resolve(c, <<>>)]
          /\ UNCHANGED files

\* The rest of the handler once every download has resolved.
ImportRespond(c) ==
  /\ inflight[c].pc = "downloaded"
  /\ importHandler(AdminHeader, ImportBody,
                   [kind |-> "ok",
                    data |-> [SteamData(Str(<<"S">>)) EXCEPT !.header_image = inflight[c].cover,
                                                              !.screenshots = inflight[c].shots]],
                   NextUuid)
  /\ inflight' = [inflight EXCEPT ![c].pc = "answered"]

NextDownload ==
  \/ \E n \in 0..Len(ShotUrls) : ImportRequest("c1", n)
  \/ \E answer \in UpstreamAnswers : Upstream("c1", answer)
  \/ ImportRespond("c1")

\* Every request in flight is answered by the upstream server at some
\* time, and the handler goes on when its downloads have resolved.
SpecDownload ==
  /\ Init
  /\ [][NextDownload]_vars
  /\ WF_vars(\E answer \in UpstreamAnswers : Upstream("c1", answer))
  /\ WF_vars(ImportRespond("c1"))

\* C30: every download resolves, so that every import request that is
\* downloading is answered at some time.
DownloadsResolve == Downloading("c1") ~> (inflight["c1"].pc = "answered")

\* a download that was redirected has resolved with a stored file and the
\* request was answered
DownloadMovedWitness ==
  /\ res.op = "steamImport" /\ res.status = 201
  /\ inflight["c1"].pc = "answered"
  /\ inflight["c1"].moved
  /\ inflight["c1"].shots = << <<"i1">> >>
  /\ <<"steam_", "i1", ".jpg">> \in files

====
